---- MODULE Spec2Model ----
(***************************************************************************)
(* Model of the sync concurrency guard (cron deduplication + in-flight     *)
(* locks) of lib/algolia/indexer.js, of the orphan-deletion reconciler     *)
(* of lib/algolia/client.js, and of the request scheduler (priority queue  *)
(* and drain loop, retries, throttle) of lib/webflow/client.js, of the     *)
(* webhook endpoint (api/webhooks, lib/webhooks) and of the per-item       *)
(* loops of the fetchers (lib/webflow).                                    *)
(*                                                                         *)
(* Time is counted in hours, so the 2 h retention window of the ledger is  *)
(* TwoHours == 2.  Every `await` of the source is a separate action; the    *)
(* code between two awaits runs atomically (single-threaded event loop).   *)
(***************************************************************************)
EXTENDS Integers, Sequences, FiniteSets, TLC

\* ---------------------------------------------------------------- bounds
MaxInv == 2          \* concurrent invocation slots
MaxTime == 3         \* the clock runs 0..MaxTime (hours)
MaxObj == 2          \* object ids per index scope are 1..MaxObj
MaxCalls == 4        \* direct calls of isDuplicateCronExecution that are logged
MaxLen == 5          \* longest algoliaIDs array given to safeDeleteOrphaned
MaxReq == 3          \* requests given to makeRequest
MaxPriority == 2     \* options.priority is 0 (absent or 0) .. MaxPriority
MaxRetries == 2      \* maxRetries is 0..MaxRetries
MaxLoops == 2        \* activations of processQueue that can be told apart
MaxCount == 2        \* requestsThisMinute reaches MaxCount before the minute is over
QuotaLimit == 2      \* rateLimitInfo.limit
BufferNum == 1       \* rateLimitSafetyBuffer = BufferNum / BufferDen
BufferDen == 2
MaxBudget == 3
MaxLimit == 3
MaxDen == 3
MaxStamp == 2
MaxItems == 3
MaxConcurrent == 2
MaxAttempts == 6
MaxRetryAfter == 2
MaxClock == 63

\* ------------------------------------------------------- program constants
TwoHours == 2        \* 2 * 60 * 60 * 1000 ms
ThresholdNum == 3    \* safetyThreshold: 0.6 = 3/5
ThresholdDen == 5
FiveMinutes == 1     \* webhook timestamps are counted in units of 5 minutes (300000 ms)

\* ------------------------------------------------------------ value sets
Invs == 1..MaxInv
Time == 0..MaxTime
ObjIds == 1..MaxObj
Procs == {"p1", "p2"}
Collections == {"c1", "c2"}
Regions == {"null", "emea"}
Falsy == {"null", "undefined", ""}
CronIds == {"x", "y"}
StaticType == "static-page"
Scopes == Collections \cup {StaticType}

\* absent Map entry
NoTs == -1

VARIABLES
  now,             \* Date.now(), in hours
  cronExecutions,  \* per process: cronId -> timestamp
  activeSyncs,     \* per process: the syncIds in flight
  index,           \* the search index: the objects it holds
  inv,             \* the invocations of the sync entry points
  calls,           \* log of the direct calls of isDuplicateCronExecution
  rec,             \* one call of safeDeleteOrphaned
  wf,              \* WebflowClient: requestQueue, isProcessingQueue, rate limit fields
  drain,           \* the activations of processQueue: position and locals
  req,             \* the requests given to makeRequest and their promises
  hist,            \* the requests in the order they were taken from the queue
  wh,              \* the webhook request being handled: headers, body, position
  batch,           \* one run of a fetcher loop: its items and what it collected
  timer,           \* WebflowClient: the clock in ms, minuteStartTime, resetTime
  indexingStats    \* per process: the indexer's staticPages and cmsItems counts

vars ==
  <<now, cronExecutions, activeSyncs, index, inv, calls, rec, wf, drain, req, hist, wh, batch,
    timer, indexingStats>>

syncvars == <<now, cronExecutions, activeSyncs, index, inv, calls, rec>>

\* ------------------------------------------------------- the guard (pure)

\* mutant: stale entries are never dropped
EvictNever(ledger, t) == ledger

\* mutant: an entry exactly two hours old is dropped as well
EvictAtTwoHours(ledger, t) ==
  [id \in CronIds |->
     IF ledger[id] # NoTs /\ ledger[id] <= t - TwoHours THEN NoTs ELSE ledger[id]]

\* lines 41-47: drop the entries older than two hours
Evict(ledger, t) ==
  [id \in CronIds |->
     IF ledger[id] # NoTs /\ ledger[id] < t - TwoHours THEN NoTs ELSE ledger[id]]

\* mutant: the clean-up runs before the falsy check
IsDuplicateCleanFirst(ledger, cronId, t) ==
  LET e == Evict(ledger, t)
  IN IF cronId \in Falsy
     THEN [ret |-> FALSE, ledger |-> e]
     ELSE IF e[cronId] # NoTs
          THEN [ret |-> TRUE, ledger |-> e]
          ELSE [ret |-> FALSE, ledger |-> [e EXCEPT ![cronId] = t]]

\* mutant: a duplicate hit records the id anew
IsDuplicateRefreshes(ledger, cronId, t) ==
  IF cronId \in Falsy
  THEN [ret |-> FALSE, ledger |-> ledger]
  ELSE LET e == Evict(ledger, t)
       IN [ret |-> e[cronId] # NoTs, ledger |-> [e EXCEPT ![cronId] = t]]

\* isDuplicateCronExecution: the returned boolean and the Map afterwards
IsDuplicateCronExecution(ledger, cronId, t) ==
  IF cronId \in Falsy
  THEN [ret |-> FALSE, ledger |-> ledger]
  ELSE LET e == Evict(ledger, t)
       IN IF e[cronId] # NoTs
          THEN [ret |-> TRUE, ledger |-> e]
          ELSE [ret |-> FALSE, ledger |-> [e EXCEPT ![cronId] = t]]

\* mutant: the lock is never seen as held
IsSyncInProgressNever(active, syncId) == FALSE

\* mutant: one global lock
IsSyncInProgressAny(active, syncId) == active # {}

IsSyncInProgress(active, syncId) == syncId \in active

\* mutant: startSync forgets to insert
StartSyncForgets(active, syncId) == active

StartSync(active, syncId) == active \cup {syncId}

\* mutant: endSync forgets to delete
EndSyncForgets(active, syncId) == active

EndSync(active, syncId) == active \ {syncId}

\* `full-sync-${region || 'all'}`
FullSyncId(region) == IF region = "null" THEN "full-sync-all" ELSE "full-sync-emea"

StaticSyncId == "static-pages"

SyncIds == Collections \cup {StaticSyncId} \cup {FullSyncId(r) : r \in Regions}

\* ------------------------------------------------------ the reconciler

Range(f) == {f[k] : k \in DOMAIN f}

RECURSIVE AsSeq(_)
\* the ids of a set as an array (ascending)
AsSeq(S) ==
  IF S = {} THEN <<>>
  ELSE LET m == CHOOSE x \in S : \A y \in S : x <= y
       IN <<m>> \o AsSeq(S \ {m})

\* lines 318-319: the ids of algoliaIDs that are not in webflowIDs
OrphanedIDs(webflowIDs, algoliaIDs) ==
  LET webflowIDSet == Range(webflowIDs)
      Keep(id) == id \notin webflowIDSet
  IN SelectSeq(algoliaIDs, Keep)

\* mutant: >= instead of >
ExceedsThresholdOrEqual(orphaned, total, num, den) == orphaned * den >= num * total

\* mutant: the safety check never fires
ExceedsThresholdNever(orphaned, total, num, den) == FALSE

\* lines 331-334: orphaned / total > num / den, on integers
ExceedsThreshold(orphaned, total, num, den) == orphaned * den > num * total

\* mutant: no early return when there is no orphan
SafeDeleteDecisionNoEarlyReturn(webflowIDs, algoliaIDs, num, den) ==
  LET orphanedIDs == OrphanedIDs(webflowIDs, algoliaIDs)
  IN IF ExceedsThreshold(Len(orphanedIDs), Len(algoliaIDs), num, den)
     THEN [what |-> "exceeded", orphanedIDs |-> orphanedIDs]
     ELSE [what |-> "delete", orphanedIDs |-> orphanedIDs]

\* safeDeleteOrphaned up to its first suspension: what it decides to do
\*   "none"     no orphan, returns {deleted: 0, orphaned: 0}
\*   "exceeded" throws SAFETY THRESHOLD EXCEEDED
\*   "delete"   calls deleteObjects(orphanedIDs, {dryRun})
SafeDeleteDecision(webflowIDs, algoliaIDs, num, den) ==
  LET orphanedIDs == OrphanedIDs(webflowIDs, algoliaIDs)
  IN IF Len(orphanedIDs) = 0
     THEN [what |-> "none", orphanedIDs |-> orphanedIDs]
     ELSE IF ExceedsThreshold(Len(orphanedIDs), Len(algoliaIDs), num, den)
          THEN [what |-> "exceeded", orphanedIDs |-> orphanedIDs]
          ELSE [what |-> "delete", orphanedIDs |-> orphanedIDs]

\* ------------------------------------------- the request scheduler (pure)

\* the requests, numbered in the order of their makeRequest calls
Reqs == 1..MaxReq

Loops == 1..MaxLoops

\* options.priority: 0 stands for an absent or zero priority
Priorities == 0..MaxPriority

RetryBudgets == 0..MaxRetries

\* no request (requestItem not yet taken)
NoReq == 0

\* line 132: options.priority || 1
ItemPriority(p) == IF p = 0 THEN 1 ELSE p

\* no retry-after header on the response
NoHeader == -1

\* a request: its item (priority, maxRetries), the state of its promise, and
\* how often it was shifted off the queue and resolve / reject was called
FreeReq == [st |-> "free", priority |-> 1, maxRetries |-> 0, shifted |-> 0, settled |-> 0]

\* an activation of processQueue: where it is suspended, the item it took, and
\* for the executeRequest it awaits the loop variable attempt and the failures
\* of the attempts made so far (log)
IdleLoop ==
  [pc |-> "idle", item |-> NoReq, attempt |-> 0, wait |-> FALSE, log |-> <<>>,
   retryAfter |-> NoHeader, sleep |-> 0]

\* lines 225-226: parseInt(error.response.headers['retry-after']) || 60: an
\* absent header gives NaN and a zero header 0, both falsy
RetryAfterSeconds(header) == IF header = NoHeader \/ header = 0 THEN 60 ELSE header

\* 1000 * Math.pow(2, attempt - 1), in ms
Backoff(attempt) ==
  IF attempt >= 1 THEN 1000 * 2 ^ (attempt - 1) ELSE 1000 \div 2 ^ (1 - attempt)

\* mutant: the backoff is not capped
RetryDelayUncapped(attempt, outcome, header) ==
  IF outcome = "429"
  THEN RetryAfterSeconds(header) * 1000 + 2000
  ELSE Backoff(attempt)

\* the sleep of executeRequest before the next attempt, in ms: line 226 for
\* a 429, line 250 for every other failure
RetryDelay(attempt, outcome, header) ==
  IF outcome = "429"
  THEN RetryAfterSeconds(header) * 1000 + 2000
  ELSE IF Backoff(attempt) < 10000 THEN Backoff(attempt) ELSE 10000

\* the client with an empty queue: rateLimitInfo (limit, remaining), the local
\* counter, and of the sync configuration the inter-request delay and the
\* safety buffer num / den
WfInitWith(delay, limit, remaining, count, num, den) ==
  /\ wf = [requestQueue |-> <<>>, isProcessingQueue |-> FALSE,
           limit |-> limit, remaining |-> remaining, requestsThisMinute |-> count,
           interRequestDelay |-> delay, bufferNum |-> num, bufferDen |-> den]
  /\ drain = [l \in Loops |-> IdleLoop]
  /\ req = [r \in Reqs |-> FreeReq]
  /\ hist = <<>>

\* the constructor (lines 17-27); delay is config.getSyncConfig().interRequestDelay
WfInit(delay) == WfInitWith(delay, QuotaLimit, QuotaLimit, 0, BufferNum, BufferDen)

\* line 189: Math.floor(limit * rateLimitSafetyBuffer)
SafetyBuffer(w) == (w.limit * w.bufferNum) \div w.bufferDen

\* line 190: limit - safetyBuffer
SafeLimit(w) == w.limit - SafetyBuffer(w)

\* mutant: the buffer itself is not yet a reason to wait
ShouldWaitBelowBuffer(w, elapsed) ==
  LET count == IF elapsed THEN 0 ELSE w.requestsThisMinute
  IN [ret |-> w.remaining < SafetyBuffer(w) \/ count >= SafeLimit(w),
      wf |-> [w EXCEPT !.requestsThisMinute = count]]

\* mutant: remaining is not looked at
ShouldWaitByCountOnly(w, elapsed) ==
  LET count == IF elapsed THEN 0 ELSE w.requestsThisMinute
  IN [ret |-> count > SafeLimit(w),
      wf |-> [w EXCEPT !.requestsThisMinute = count]]

\* lines 181-197; elapsed tells whether now - minuteStartTime >= 60000
ShouldWaitForRateLimit(w, elapsed) ==
  LET count == IF elapsed THEN 0 ELSE w.requestsThisMinute
      safetyBuffer == SafetyBuffer(w)
      safeLimit == SafeLimit(w)
  IN [ret |-> w.remaining <= safetyBuffer \/ count >= safeLimit,
      wf |-> [w EXCEPT !.requestsThisMinute = count]]

\* the minute is over at the latest when the counter has reached MaxCount
ElapsedInputs(w) == IF w.requestsThisMinute >= MaxCount THEN {TRUE} ELSE BOOLEAN

RECURSIVE SortFrom(_, _, _)
\* the items of priority p, then those of lower priorities, each group in queue order
SortFrom(q, rq, p) ==
  IF p = 0 THEN <<>>
  ELSE LET HasP(r) == rq[r].priority = p
       IN SelectSeq(q, HasP) \o SortFrom(q, rq, p - 1)

\* mutant: the queue is not sorted
SortQueueNone(q, rq) == q

\* line 158: requestQueue.sort((a, b) => b.priority - a.priority), a stable sort
SortQueue(q, rq) == SortFrom(q, rq, MaxPriority)

\* the top of the while loop (line 148): with work left, shouldWaitForRateLimit
\* is called and awaited; with none, isProcessingQueue is reset (line 178)
LoopTop(s, l, elapsed) ==
  IF Len(s.wf.requestQueue) > 0
  THEN LET sw == ShouldWaitForRateLimit(s.wf, elapsed)
       IN [s EXCEPT !.wf = sw.wf,
                    !.drain[l] = [IdleLoop EXCEPT !.pc = "awaitThrottle", !.wait = sw.ret]]
  ELSE [s EXCEPT !.wf.isProcessingQueue = FALSE, !.drain[l] = IdleLoop]

\* mutant: processQueue without the isProcessingQueue check
ProcessQueueNoGuard(s, l, elapsed) ==
  IF Len(s.wf.requestQueue) = 0
  THEN s
  ELSE LoopTop([s EXCEPT !.wf.isProcessingQueue = TRUE], l, elapsed)

\* mutant: processQueue does not set isProcessingQueue
ProcessQueueNoFlag(s, l, elapsed) ==
  IF s.wf.isProcessingQueue \/ Len(s.wf.requestQueue) = 0
  THEN s
  ELSE LET t == LoopTop(s, l, elapsed)
       IN [t EXCEPT !.wf.isProcessingQueue = FALSE]

\* processQueue up to its first await (lines 141-150)
ProcessQueue(s, l, elapsed) ==
  IF s.wf.isProcessingQueue \/ Len(s.wf.requestQueue) = 0
  THEN s
  ELSE LoopTop([s EXCEPT !.wf.isProcessingQueue = TRUE], l, elapsed)

\* mutant: the attempts are counted from 0
ExecuteRequestFromZero(s, l) ==
  IF s.req[s.drain[l].item].maxRetries >= 1
  THEN [s EXCEPT !.drain[l].pc = "executing", !.drain[l].attempt = 0]
  ELSE [s EXCEPT !.drain[l].pc = "returning"]

\* executeRequest up to its first await (lines 211-218): the first upstream
\* call, or with maxRetries = 0 no call at all
ExecuteRequest(s, l) ==
  IF s.req[s.drain[l].item].maxRetries >= 1
  THEN [s EXCEPT !.drain[l].pc = "executing", !.drain[l].attempt = 1]
  ELSE [s EXCEPT !.drain[l].pc = "returning"]

\* mutant: the item is read but left in the queue
DispatchKeeps(s, l) ==
  LET q == SortQueue(s.wf.requestQueue, s.req)
  IN IF q = <<>>
     THEN [s EXCEPT !.drain[l].pc = "crashed"]
     ELSE ExecuteRequest([s EXCEPT !.wf.requestQueue = q,
                                   !.req[Head(q)].st = "dispatched",
                                   !.hist = Append(@, Head(q)),
                                   !.drain[l].item = Head(q)], l)

\* lines 157-163: sort, shift, executeRequest; on an empty queue requestItem
\* is undefined and the loop dies with a TypeError, isProcessingQueue still set
Dispatch(s, l) ==
  LET q == SortQueue(s.wf.requestQueue, s.req)
  IN IF q = <<>>
     THEN [s EXCEPT !.drain[l].pc = "crashed"]
     ELSE ExecuteRequest([s EXCEPT !.wf.requestQueue = Tail(q),
                                   !.req[Head(q)].st = "dispatched",
                                   !.req[Head(q)].shifted = @ + 1,
                                   !.hist = Append(@, Head(q)),
                                   !.drain[l].item = Head(q)], l)

\* mutant: the loop ends after every request
SettleAndStop(s, l, how, elapsed) ==
  LET r == s.drain[l].item
  IN [s EXCEPT !.req[r].st = IF @ \in {"fulfilled", "rejected"} THEN @ ELSE how,
               !.req[r].settled = @ + 1,
               !.wf.isProcessingQueue = FALSE,
               !.drain[l] = IdleLoop]

\* lines 163-178: resolve or reject the item's promise, then the inter-request
\* delay, or straight back to the top of the loop
Settle(s, l, how, elapsed) ==
  LET r == s.drain[l].item
      s1 == [s EXCEPT !.req[r].st = IF @ \in {"fulfilled", "rejected"} THEN @ ELSE how,
                      !.req[r].settled = @ + 1]
  IN IF s.wf.interRequestDelay > 0
     THEN [s1 EXCEPT !.drain[l] = [IdleLoop EXCEPT !.pc = "spacing"]]
     ELSE LoopTop(s1, l, elapsed)

\* ------------------------------------------------------- the webhook (pure)

\* a x-webflow-timestamp header that parseInt does not read as a number
NaNTs == -2

Stamps == 0..MaxStamp

\* x-webflow-timestamp: absent, not a number, or a time
TimestampHeaders == {NoTs, NaNTs} \cup Stamps

\* the secrets of the environment, and the keys a sender may sign with
Secrets == {"s1", "s2"}

Keys == Secrets \cup {"s3"}

\* the trigger types with an entry in secretMap (created stands for changed
\* and published as well, deleted for unpublished)
Triggers == {"collection_item_created", "collection_item_deleted"}

\* the collection configured with id 'beyond-the-obvious'
BTO == "c1"

NoBody ==
  [json |-> FALSE, trigger |-> "none", fieldsOk |-> FALSE, collection |-> "none",
   draft |-> FALSE, item |-> 0]

\* the raw bodies: not JSON; an event of a known trigger type for an item of a
\* configured collection or of an unknown one; an event without its required
\* fields; an event of a trigger type that is not in the list
WebhookBodies ==
  {NoBody}
    \cup {b \in [json : {TRUE}, trigger : Triggers, fieldsOk : {TRUE},
                 collection : Collections \cup {"unknown"}, draft : BOOLEAN, item : ObjIds] :
            /\ b.collection # BTO => (~b.draft /\ b.item = 1)
            /\ b.trigger = "collection_item_deleted" => ~b.draft}
    \cup {[NoBody EXCEPT !.json = TRUE, !.trigger = "collection_item_created",
                         !.collection = BTO, !.item = 1],
          [NoBody EXCEPT !.json = TRUE, !.trigger = "bogus", !.fieldsOk = TRUE,
                         !.collection = BTO, !.item = 1]}

\* x-webflow-signature: absent, a string of another length than a hex digest,
\* or the digest of some message under some key
NoSignature == [kind |-> "absent", secret |-> "none", timestamp |-> NoTs, body |-> NoBody]

Malformed == [NoSignature EXCEPT !.kind = "malformed"]

\* lines 28-32 of validator.js: HMAC-SHA256 of `${timestamp}:${body}` under
\* secret, as a hex digest; different inputs give different digests
Hmac(secret, timestamp, body) ==
  [kind |-> "hmac", secret |-> secret, timestamp |-> timestamp, body |-> body]

\* process.env: WEBFLOW_WEBHOOK_SECRET_* per trigger type and WEBFLOW_WEBHOOK_SECRET
Envs == [byTrigger : [Triggers -> {"none", "s1"}], default : {"none", "s2"}]

NoEnv == [byTrigger |-> [t \in Triggers |-> "none"], default |-> "none"]

\* part_012 lines 62-70: secretMap[triggerType] || process.env.WEBFLOW_WEBHOOK_SECRET
WebhookSecret(env, trigger) ==
  IF trigger \in Triggers /\ env.byTrigger[trigger] # "none"
  THEN env.byTrigger[trigger]
  ELSE env.default

\* mutant: the age of the timestamp is not checked
ValidateWebhookSignatureAnyAge(timestamp, body, signature, secret, clock) ==
  /\ timestamp # NoTs /\ signature.kind # "absent" /\ secret # "none"
  /\ signature = Hmac(secret, timestamp, body)

\* validateWebhookSignature (validator.js 6-50); clock is Date.now().  A
\* timestamp that is not a number gives timeDiff = NaN, which is not >= 300000;
\* timingSafeEqual throws on buffers of different lengths, caught at line 44
ValidateWebhookSignature(timestamp, body, signature, secret, clock) ==
  IF timestamp = NoTs \/ signature.kind = "absent" \/ secret = "none"
  THEN FALSE
  ELSE IF timestamp # NaNTs /\ clock - timestamp >= FiveMinutes
       THEN FALSE
       ELSE IF signature.kind = "malformed"
            THEN FALSE
            ELSE signature = Hmac(secret, timestamp, body)

\* validateWebhookPayload (validator.js 52-110)
ValidateWebhookPayload(body) ==
  body.trigger # "none" /\ body.fieldsOk /\ body.trigger \in Triggers

\* no webhook request is being handled
IdleWebhook ==
  [pc |-> "idle", method |-> "POST", timestamp |-> NoTs, signature |-> NoSignature,
   env |-> NoEnv, body |-> NoBody, clock |-> 0,
   validated |-> FALSE, invoked |-> FALSE, mutation |-> "none", status |-> 0]

\* res.status(code).json(...)
Responded(w, code) == [w EXCEPT !.pc = "responded", !.status = code]

\* processWebhookEvent up to its first await (processor.js 14-54, 62-82,
\* 133-135): an unknown collection throws, another collection than BTO and a
\* draft are ignored, otherwise the item is fetched or the object deleted
ProcessWebhookEvent(w) ==
  LET v == [w EXCEPT !.invoked = TRUE]
  IN IF v.body.collection \notin Collections
     THEN Responded(v, 500)
     ELSE IF v.body.collection # BTO
          THEN Responded(v, 200)
          ELSE IF v.body.trigger = "collection_item_created"
               THEN IF v.body.draft
                    THEN Responded(v, 200)
                    ELSE [v EXCEPT !.pc = "fetching"]
               ELSE [v EXCEPT !.pc = "deleting"]

\* mutant: the event is processed before the signature is looked at
HandleBodyProcessFirst(w, clock) ==
  LET secret == WebhookSecret(w.env, w.body.trigger)
      v == [w EXCEPT !.clock = clock]
  IN IF ~v.body.json
     THEN Responded(v, 400)
     ELSE IF secret = "none"
          THEN Responded(v, 500)
          ELSE IF ~ValidateWebhookPayload(v.body)
               THEN Responded(v, 400)
               ELSE ProcessWebhookEvent(v)

\* the handler from JSON.parse to its next await or its response (part_012 45-131)
HandleBody(w, clock) ==
  LET secret == WebhookSecret(w.env, w.body.trigger)
      v == [w EXCEPT !.clock = clock]
  IN IF ~v.body.json
     THEN Responded(v, 400)
     ELSE IF secret = "none"
          THEN Responded(v, 500)
          ELSE IF ~ValidateWebhookSignature(v.timestamp, v.body, v.signature, secret, clock)
               THEN Responded(v, 401)
               ELSE IF ~ValidateWebhookPayload(v.body)
                    THEN Responded([v EXCEPT !.validated = TRUE], 400)
                    ELSE ProcessWebhookEvent([v EXCEPT !.validated = TRUE])

\* ------------------------------------------------ the fetcher loops (pure)

\* what the processing of one item does: it returns the item, returns null
\* (filtered out), or throws
ItemOutcomes == {"ok", "null", "throw"}

\* the loops: processBatch over the pages of a batch, fetchCollectionById over
\* the items of a collection, fetchAllCollections over the collections
BatchKinds == {"pages", "collection", "collections"}

\* no fetcher loop runs.  outcomes: what the processing of each item will do;
\* conc: the chunk size (1 for the sequential loops); pos: the items of the
\* chunks done; settled: the promises of the current chunk that have settled;
\* processed: the positions of the items collected so far
IdleBatch ==
  [pc |-> "idle", kind |-> "none", outcomes |-> <<>>, conc |-> 1, pos |-> 0,
   settled |-> {}, processed |-> <<>>]

\* the positions of the current chunk
Window(b) ==
  {k \in 1..Len(b.outcomes) : k > b.pos /\ k <= b.pos + b.conc}

RECURSIVE Collected(_, _, _)
\* the positions from..to whose item was returned, in order (results.filter(Boolean))
Collected(outcomes, from, to) ==
  IF from > to THEN <<>>
  ELSE (IF outcomes[from] = "ok" THEN <<from>> ELSE <<>>) \o Collected(outcomes, from + 1, to)

\* the loop is entered: with nothing to do it returns at once
EnterLoop(b) ==
  [b EXCEPT !.pc = IF Len(b.outcomes) = 0 THEN "returned" ELSE "running"]

\* the chunk is done: its results are pushed and the next chunk is started,
\* or the collected items are returned
ChunkDone(b) ==
  LET last == IF b.pos + b.conc < Len(b.outcomes) THEN b.pos + b.conc ELSE Len(b.outcomes)
  IN [b EXCEPT !.processed = @ \o Collected(b.outcomes, b.pos + 1, last),
               !.pos = last, !.settled = {},
               !.pc = IF last = Len(b.outcomes) THEN "returned" ELSE "running"]

\* mutant: the failure of an item ends the run
SettleItemRethrows(b, k) ==
  IF b.outcomes[k] = "throw"
  THEN [b EXCEPT !.pc = "threw"]
  ELSE LET c == [b EXCEPT !.settled = @ \cup {k}]
       IN IF c.settled = Window(b) THEN ChunkDone(c) ELSE c

\* the processing of item k settles; a throw is caught and logged in the loop
\* (part_002 106-114, 895-903, 993-1008) and counts for nothing
SettleItem(b, k) ==
  LET c == [b EXCEPT !.settled = @ \cup {k}]
  IN IF c.settled = Window(b) THEN ChunkDone(c) ELSE c

\* ------------------------------------------------- the limiter's clock

\* rateLimitInfo.resetTime before any x-ratelimit-reset header
NullReset == -1

\* no call of getWaitTime has returned
NoWait == -1

\* new WebflowClient(): minuteStartTime = Date.now(), taken as 0; resetTime null
IdleTimer == [now |-> 0, minuteStartTime |-> 0, resetTime |-> NullReset, wait |-> NoWait]

\* mutant: without the minimum of 5 s
GetWaitTimeNoFloor(resetTime, clock, minuteStartTime) ==
  IF resetTime # NullReset /\ resetTime # 0 /\ resetTime > clock
  THEN resetTime - clock + 1000
  ELSE 60000 - (clock - minuteStartTime) + 2000

\* getWaitTime, in ms; a null or zero resetTime is falsy
GetWaitTime(resetTime, clock, minuteStartTime) ==
  IF resetTime # NullReset /\ resetTime # 0 /\ resetTime > clock
  THEN resetTime - clock + 1000
  ELSE LET timeUntilNextMinute == 60000 - (clock - minuteStartTime)
       IN IF timeUntilNextMinute + 2000 > 5000 THEN timeUntilNextMinute + 2000 ELSE 5000

\* resetStats (and the constructor): the counts of the indexer's record
ResetStats == [staticPages |-> 0, cmsItems |-> 0]

\* the webhook endpoint, the fetchers, the limiter's clock and the indexer's
\* counts at rest
QuietRest ==
  /\ wh = IdleWebhook /\ batch = IdleBatch /\ timer = IdleTimer
  /\ indexingStats = [p \in Procs |-> ResetStats]

\* ---------------------------------------------------------- invocations

Objects == Scopes \X ObjIds

InScope(objs, scope) == {o[2] : o \in {x \in objs : x[1] = scope}}

Tagged(scope, ids) == {<<scope, id>> : id \in ids}

NoRec == [pc |-> "none"]

IdleInv ==
  [pc |-> "idle", kind |-> "none", proc |-> "p1", syncId |-> "none",
   scope |-> "none", cronId |-> "null", dryRun |-> FALSE, clearIndex |-> FALSE, includeCMS |-> FALSE,
   upstream |-> {}, items |-> {}, pending |-> {}, result |-> "none",
   produced |-> ResetStats, reported |-> ResetStats,
   fetched |-> FALSE, saved |-> FALSE, deleted |-> FALSE,
   sparse |-> FALSE, aborted |-> FALSE]

Init ==
  /\ now = 0
  /\ cronExecutions = [p \in Procs |-> [id \in CronIds |-> NoTs]]
  /\ activeSyncs = [p \in Procs |-> {}]
  /\ index = Objects
  /\ inv = [i \in Invs |-> IdleInv]
  /\ calls = <<>>
  /\ rec = NoRec
  /\ WfInit(1)
  /\ QuietRest

\* the clock advances
Tick ==
  /\ now < MaxTime
  /\ now' = now + 1
  /\ UNCHANGED <<cronExecutions, activeSyncs, index, inv, calls, rec, wf, drain, req, hist, wh, batch, timer, indexingStats>>

\* a return or throw that happens before the lock is taken
Skip(i, kind, p, syncId, cronId, res) ==
  inv' = [inv EXCEPT ![i] = [IdleInv EXCEPT !.pc = "done", !.kind = kind, !.proc = p,
                                            !.syncId = syncId, !.cronId = cronId,
                                            !.result = res]]

\* the record of a finished invocation: what it was, how it ended, what it issued
Done(r, res, saved, deleted) ==
  [IdleInv EXCEPT !.pc = "done", !.kind = r.kind, !.result = res,
                  !.fetched = r.fetched, !.saved = saved, !.deleted = deleted,
                  !.aborted = r.aborted, !.produced = r.produced]

\* a return or throw from inside try { } finally { this.endSync(syncId) }
Exit(i, res) ==
  /\ inv' = [inv EXCEPT ![i] = Done(inv[i], res, inv[i].saved, inv[i].deleted)]
  /\ activeSyncs' = [activeSyncs EXCEPT ![inv[i].proc] = EndSync(@, inv[i].syncId)]

\* mutant: the lock check comes before the duplicate check
GuardedEntryLockFirst(i, kind, p, syncId, scope, dryRun, cronId) ==
  LET d == IsDuplicateCronExecution(cronExecutions[p], cronId, now)
  IN /\ inv[i].pc = "idle"
     /\ UNCHANGED <<now, index, calls, rec, wf, drain, req, hist, wh, batch, timer, indexingStats>>
     /\ IF IsSyncInProgress(activeSyncs[p], syncId)
        THEN /\ Skip(i, kind, p, syncId, cronId, "inProgress")
             /\ UNCHANGED <<activeSyncs, cronExecutions>>
        ELSE /\ cronExecutions' = [cronExecutions EXCEPT ![p] = d.ledger]
             /\ IF d.ret
                THEN /\ Skip(i, kind, p, syncId, cronId, "duplicate")
                     /\ UNCHANGED activeSyncs
                ELSE /\ activeSyncs' = [activeSyncs EXCEPT ![p] = StartSync(@, syncId)]
                     /\ inv' = [inv EXCEPT ![i] =
                          [IdleInv EXCEPT !.pc = "fetch", !.kind = kind, !.proc = p,
                                          !.syncId = syncId, !.scope = scope,
                                          !.cronId = cronId, !.dryRun = dryRun,
                                          !.fetched = TRUE]]

\* the synchronous prefix shared by syncSpecificCollection and syncStaticPagesOnly:
\* duplicate check, lock check, startSync, then the first await (the fetch)
GuardedEntry(i, kind, p, syncId, scope, dryRun, cronId) ==
  LET d == IsDuplicateCronExecution(cronExecutions[p], cronId, now)
  IN /\ inv[i].pc = "idle"
     /\ cronExecutions' = [cronExecutions EXCEPT ![p] = d.ledger]
     /\ IF d.ret
        THEN /\ Skip(i, kind, p, syncId, cronId, "duplicate")
             /\ UNCHANGED activeSyncs
        ELSE IF IsSyncInProgress(activeSyncs[p], syncId)
             THEN /\ Skip(i, kind, p, syncId, cronId, "inProgress")
                  /\ UNCHANGED activeSyncs
             ELSE /\ activeSyncs' = [activeSyncs EXCEPT ![p] = StartSync(@, syncId)]
                  /\ inv' = [inv EXCEPT ![i] =
                       [IdleInv EXCEPT !.pc = "fetch", !.kind = kind, !.proc = p,
                                       !.syncId = syncId, !.scope = scope,
                                       !.cronId = cronId, !.dryRun = dryRun,
                                       !.fetched = TRUE]]
     /\ UNCHANGED <<now, index, calls, rec, wf, drain, req, hist, wh, batch, timer, indexingStats>>

SyncSpecificCollection(i, p, collectionSlug, dryRun, cronId) ==
  GuardedEntry(i, "collection", p, collectionSlug, collectionSlug, dryRun, cronId)

SyncStaticPagesOnly(i, p, dryRun, cronId) ==
  GuardedEntry(i, "static", p, StaticSyncId, StaticType, dryRun, cronId)

\* after the deletion sync of syncSpecificCollection (lines 269-294):
\* transform, dry-run return, or go on to indexObjects; ab tells that the
\* inner catch (lines 265-267) caught the safety-threshold error
CollectionAfterDeletion(i, del, ab) ==
  IF inv[i].dryRun
  THEN /\ inv' = [inv EXCEPT ![i] = Done([inv[i] EXCEPT !.aborted = ab], "dryRun",
                                         inv[i].saved, inv[i].deleted \/ del)]
       /\ activeSyncs' = [activeSyncs EXCEPT ![inv[i].proc] = EndSync(@, inv[i].syncId)]
  ELSE /\ inv' = [inv EXCEPT ![i] = [@ EXCEPT !.pc = "index", !.pending = {},
                                             !.deleted = @ \/ del, !.aborted = ab]]
       /\ UNCHANGED activeSyncs

\* the fetch brought back fewer than 2/5 of the ids that are indexed
SparseFetch(ids, indexed) ==
  /\ indexed # {}
  /\ Cardinality(ids \cap indexed) * ThresholdDen
       < (ThresholdDen - ThresholdNum) * Cardinality(indexed)

\* the fetch of a guarded sync settles: it throws, or the source lists the
\* ids in listed and the fetcher returns those whose processing did not fail
\* (part_002 101-129 and 986-1010 drop the others)
FetchProcessed(i, outcome, listed, failed) ==
  LET ids == listed \ failed
  IN
  /\ inv[i].pc = "fetch"
  /\ UNCHANGED <<now, cronExecutions, index, calls, rec, wf, drain, req, hist, wh, batch, timer, indexingStats>>
  /\ CASE outcome = "throw" -> Exit(i, "threw")
       [] outcome = "ok" /\ ids = {} -> Exit(i, "noItems")
       [] outcome = "ok" /\ ids # {} /\ inv[i].kind = "collection" ->
            /\ inv' = [inv EXCEPT ![i] = [@ EXCEPT !.pc = "browse", !.items = ids,
                          !.upstream = listed,
                          !.sparse = SparseFetch(ids, InScope(index, inv[i].scope))]]
            /\ UNCHANGED activeSyncs
       [] outcome = "ok" /\ ids # {} /\ inv[i].kind = "static" ->
            IF inv[i].dryRun
            THEN Exit(i, "dryRun")
            ELSE /\ inv' = [inv EXCEPT ![i] = [@ EXCEPT !.pc = "index", !.items = ids,
                               !.upstream = listed,
                               !.sparse = SparseFetch(ids, InScope(index, inv[i].scope))]]
                 /\ UNCHANGED activeSyncs

\* the fetch settles and no item failed
FetchDone(i, outcome, ids) == FetchProcessed(i, outcome, ids, {})

\* getAllObjectIDsByCollection / getAllObjectIDsByType settles, and
\* safeDeleteOrphaned runs up to deleteObjects
BrowseDone(i, outcome) ==
  LET dec == SafeDeleteDecision(AsSeq(inv[i].items), AsSeq(InScope(index, inv[i].scope)),
                                ThresholdNum, ThresholdDen)
  IN /\ inv[i].pc = "browse"
     /\ UNCHANGED <<now, cronExecutions, index, calls, rec, wf, drain, req, hist, wh, batch, timer, indexingStats>>
     /\ IF inv[i].kind = "collection"
        THEN IF outcome = "throw" \/ dec.what \in {"none", "exceeded"}
             THEN \* inner catch logs and goes on
                  CollectionAfterDeletion(i, FALSE, outcome # "throw" /\ dec.what = "exceeded")
             ELSE /\ inv' = [inv EXCEPT ![i] = [@ EXCEPT !.pc = "delete",
                                                        !.pending = Range(dec.orphanedIDs)]]
                  /\ UNCHANGED activeSyncs
        ELSE IF outcome = "throw"
             THEN Exit(i, "threw")
             ELSE IF dec.what = "exceeded"
             THEN /\ inv' = [inv EXCEPT ![i] = Done([inv[i] EXCEPT !.aborted = TRUE], "threw",
                                                    inv[i].saved, inv[i].deleted)]
                  /\ activeSyncs' = [activeSyncs EXCEPT ![inv[i].proc] = EndSync(@, inv[i].syncId)]
             ELSE IF dec.what = "none"
                  THEN Exit(i, "ok")
                  ELSE /\ inv' = [inv EXCEPT ![i] = [@ EXCEPT !.pc = "delete",
                                                             !.pending = Range(dec.orphanedIDs)]]
                       /\ UNCHANGED activeSyncs

\* deleteObjects settles: init() failed, index.deleteObjects failed, or the
\* pending ids are removed from the index
DeleteDone(i, outcome) ==
  /\ inv[i].pc = "delete"
  /\ UNCHANGED <<now, cronExecutions, calls, rec, wf, drain, req, hist, wh, batch, timer, indexingStats>>
  /\ index' = IF outcome = "ok" THEN index \ Tagged(inv[i].scope, inv[i].pending) ELSE index
  /\ IF inv[i].kind = "collection"
     THEN CollectionAfterDeletion(i, outcome # "initFail", FALSE)
     ELSE IF outcome = "ok"
          THEN /\ inv' = [inv EXCEPT ![i] = Done(inv[i], "ok", inv[i].saved, TRUE)]
               /\ activeSyncs' = [activeSyncs EXCEPT ![inv[i].proc] = EndSync(@, inv[i].syncId)]
          ELSE /\ inv' = [inv EXCEPT ![i] = Done(inv[i], "threw", inv[i].saved, outcome # "initFail")]
               /\ activeSyncs' = [activeSyncs EXCEPT ![inv[i].proc] = EndSync(@, inv[i].syncId)]

\* prepareObjectsForIndexing + indexObjects settle (clearIndex: false)
IndexDone(i, outcome) ==
  /\ inv[i].pc = "index"
  /\ inv[i].kind \in {"collection", "static"}
  /\ UNCHANGED <<now, cronExecutions, calls, rec, wf, drain, req, hist, wh, batch, timer, indexingStats>>
  /\ index' = IF outcome = "ok" THEN index \cup Tagged(inv[i].scope, inv[i].items) ELSE index
  /\ CASE outcome = "initFail" -> Exit(i, "threw")
       [] outcome = "saveFail" ->
            /\ inv' = [inv EXCEPT ![i] = Done(inv[i], "threw", TRUE, inv[i].deleted)]
            /\ activeSyncs' = [activeSyncs EXCEPT ![inv[i].proc] = EndSync(@, inv[i].syncId)]
       [] outcome = "ok" /\ inv[i].kind = "collection" ->
            /\ inv' = [inv EXCEPT ![i] = Done(inv[i], "ok", TRUE, inv[i].deleted)]
            /\ activeSyncs' = [activeSyncs EXCEPT ![inv[i].proc] = EndSync(@, inv[i].syncId)]
       [] outcome = "ok" /\ inv[i].kind = "static" ->
            /\ inv' = [inv EXCEPT ![i] = [@ EXCEPT !.pc = "browse", !.saved = TRUE]]
            /\ UNCHANGED activeSyncs

\* performFullSync up to its first await: the region lock is checked, and a
\* held lock makes it throw (line 99); otherwise startSync, resetStats and the
\* first step. stats tells whether the state keeps the indexer's counts
PerformFullSyncWith(i, p, region, includeStatic, includeCMS, clearIndex, dryRun, stats) ==
  LET syncId == FullSyncId(region)
      started == [IdleInv EXCEPT !.kind = "full", !.proc = p, !.syncId = syncId,
                                 !.dryRun = dryRun, !.clearIndex = clearIndex,
                                 !.includeCMS = includeCMS]
  IN /\ inv[i].pc = "idle"
     /\ UNCHANGED <<now, cronExecutions, index, calls, rec, wf, drain, req, hist, wh, batch, timer>>
     /\ indexingStats' = IF stats /\ ~IsSyncInProgress(activeSyncs[p], syncId)
                         THEN [indexingStats EXCEPT ![p] = ResetStats]
                         ELSE indexingStats
     /\ IF IsSyncInProgress(activeSyncs[p], syncId)
        THEN /\ Skip(i, "full", p, syncId, "null", "threwInProgress")
             /\ UNCHANGED activeSyncs
        ELSE IF includeStatic \/ includeCMS
             THEN /\ activeSyncs' = [activeSyncs EXCEPT ![p] = StartSync(@, syncId)]
                  /\ inv' = [inv EXCEPT ![i] =
                       [started EXCEPT !.pc = IF includeStatic THEN "fullStatic" ELSE "fullCMS",
                                       !.fetched = TRUE]]
             ELSE IF dryRun
                  THEN \* startSync, nothing to await, finally endSync
                       /\ activeSyncs' = [activeSyncs EXCEPT ![p] = EndSync(StartSync(@, syncId), syncId)]
                       /\ inv' = [inv EXCEPT ![i] = Done(started, "dryRun", FALSE, FALSE)]
                  ELSE /\ activeSyncs' = [activeSyncs EXCEPT ![p] = StartSync(@, syncId)]
                       /\ inv' = [inv EXCEPT ![i] =
                            [started EXCEPT !.pc = IF clearIndex THEN "fullClear" ELSE "fullIndex"]]

\* lines 119-138: after the fetches of a full sync; r is the invocation with
\* what it has produced; the dry-run result reads staticPages and cmsItems
\* from the indexer's record as the step leaves it
FullAfterFetchWith(i, r, objs, stats) ==
  IF r.dryRun
  THEN /\ inv' = [inv EXCEPT ![i] =
            [Done(r, "dryRun", r.saved, r.deleted)
               EXCEPT !.reported = IF stats THEN indexingStats'[r.proc] ELSE ResetStats]]
       /\ activeSyncs' = [activeSyncs EXCEPT ![r.proc] = EndSync(@, r.syncId)]
  ELSE /\ inv' = [inv EXCEPT ![i] = [r EXCEPT !.pc = IF r.clearIndex THEN "fullClear" ELSE "fullIndex",
                                             !.items = objs]]
       /\ UNCHANGED activeSyncs

\* syncStaticPages settles: line 177 writes the count into the indexer's record
FullStaticWith(i, outcome, ids, stats) ==
  LET r == IF stats THEN [inv[i] EXCEPT !.produced.staticPages = Cardinality(ids)] ELSE inv[i]
  IN /\ inv[i].pc = "fullStatic"
     /\ UNCHANGED <<now, cronExecutions, index, calls, rec, wf, drain, req, hist, wh, batch, timer>>
     /\ indexingStats' = IF stats /\ outcome # "throw"
                         THEN [indexingStats EXCEPT ![inv[i].proc].staticPages = Cardinality(ids)]
                         ELSE indexingStats
     /\ IF outcome = "throw"
        THEN Exit(i, "threw")
        ELSE IF inv[i].includeCMS
             THEN /\ inv' = [inv EXCEPT ![i] = [r EXCEPT !.pc = "fullCMS",
                                                        !.items = Tagged(StaticType, ids)]]
                  /\ UNCHANGED activeSyncs
             ELSE FullAfterFetchWith(i, r, Tagged(StaticType, ids), stats)

\* syncCMSCollections settles: line 195 writes the count into the indexer's record
FullCMSWith(i, outcome, objs, stats) ==
  LET r == IF stats THEN [inv[i] EXCEPT !.produced.cmsItems = Cardinality(objs)] ELSE inv[i]
  IN /\ inv[i].pc = "fullCMS"
     /\ UNCHANGED <<now, cronExecutions, index, calls, rec, wf, drain, req, hist, wh, batch, timer>>
     /\ indexingStats' = IF stats /\ outcome # "throw"
                         THEN [indexingStats EXCEPT ![inv[i].proc].cmsItems = Cardinality(objs)]
                         ELSE indexingStats
     /\ IF outcome = "throw"
        THEN Exit(i, "threw")
        ELSE FullAfterFetchWith(i, r, inv[i].items \cup objs, stats)

\* indexObjects with clearIndex: clearObjects settles
FullClearDone(i, outcome) ==
  /\ inv[i].pc = "fullClear"
  /\ UNCHANGED <<now, cronExecutions, calls, rec, wf, drain, req, hist, wh, batch, timer, indexingStats>>
  /\ IF outcome = "ok"
     THEN /\ index' = {}
          /\ inv' = [inv EXCEPT ![i] = [@ EXCEPT !.pc = "fullIndex", !.deleted = TRUE]]
          /\ UNCHANGED activeSyncs
     ELSE /\ UNCHANGED index
          /\ Exit(i, "threw")

\* indexObjects of a full sync: saveObjects settles, and the result reads
\* staticPages and cmsItems from the indexer's record (lines 144-145)
FullIndexWith(i, outcome, stats) ==
  /\ inv[i].pc = "fullIndex"
  /\ UNCHANGED <<now, cronExecutions, calls, rec, wf, drain, req, hist, wh, batch, timer, indexingStats>>
  /\ IF outcome = "ok"
     THEN /\ index' = index \cup inv[i].items
          /\ inv' = [inv EXCEPT ![i] =
               [Done(inv[i], "ok", TRUE, inv[i].deleted)
                  EXCEPT !.reported = IF stats THEN indexingStats[inv[i].proc] ELSE ResetStats]]
          /\ activeSyncs' = [activeSyncs EXCEPT ![inv[i].proc] = EndSync(@, inv[i].syncId)]
     ELSE /\ UNCHANGED index
          /\ Exit(i, "threw")

\* the steps of a full sync with the indexer's counts left out of the state
PerformFullSync(i, p, region, includeStatic, includeCMS, clearIndex, dryRun) ==
  PerformFullSyncWith(i, p, region, includeStatic, includeCMS, clearIndex, dryRun, FALSE)

FullStaticDone(i, outcome, ids) == FullStaticWith(i, outcome, ids, FALSE)

FullCMSDone(i, outcome, objs) == FullCMSWith(i, outcome, objs, FALSE)

FullIndexDone(i, outcome) == FullIndexWith(i, outcome, FALSE)

\* the caller takes the result; the slot is free for a new invocation
Return(i) ==
  /\ inv[i].pc = "done"
  /\ inv' = [inv EXCEPT ![i] = IdleInv]
  /\ UNCHANGED <<now, cronExecutions, activeSyncs, index, calls, rec, wf, drain, req, hist, wh, batch, timer, indexingStats>>

\* ------------------------------------------------------- specifications

\* a fetch returns nothing, or everything but the last id
FetchInputs == {{}, ObjIds \ {MaxObj}}

FullCMSInputs == {UNION {Tagged(c, ids) : c \in Collections} : ids \in FetchInputs}

\* the first slot runs in p1; the others in either process
ProcsOf(i) == IF i = 1 THEN {"p1"} ELSE Procs

\* the steps of a guarded sync after its entry
GuardedFlow(i) ==
  \/ \E ids \in FetchInputs : FetchDone(i, "ok", ids)
  \/ FetchDone(i, "throw", {})
  \/ \E o \in {"ok", "throw"} : BrowseDone(i, o)
  \/ \E o \in {"ok", "initFail", "deleteFail"} : DeleteDone(i, o)
  \/ \E o \in {"ok", "initFail", "saveFail"} : IndexDone(i, o)

\* the steps of a full sync after its entry
FullFlow(i) ==
  \/ \E ids \in FetchInputs : FullStaticDone(i, "ok", ids)
  \/ FullStaticDone(i, "throw", {})
  \/ \E objs \in FullCMSInputs : FullCMSDone(i, "ok", objs)
  \/ FullCMSDone(i, "throw", {})
  \/ \E o \in {"ok", "fail"} : FullClearDone(i, o)
  \/ \E o \in {"ok", "fail"} : FullIndexDone(i, o)

\* Spec: manual invocations (no cronId) of the three entry points, in two
\* processes, interleaved at every await
Next ==
  \/ \E i \in Invs, p \in Procs, dryRun \in BOOLEAN :
       /\ p \in ProcsOf(i)
       /\ \/ \E c \in Collections : SyncSpecificCollection(i, p, c, dryRun, "null")
          \/ SyncStaticPagesOnly(i, p, dryRun, "null")
  \/ \E i \in Invs, p \in Procs, region \in Regions, f \in [1..4 -> BOOLEAN] :
       /\ p \in ProcsOf(i)
       /\ PerformFullSync(i, p, region, f[1], f[2], f[3], f[4])
  \/ \E i \in Invs : GuardedFlow(i) \/ FullFlow(i) \/ Return(i)

Spec == Init /\ [][Next]_vars

\* SpecDedup: cron-triggered and manual invocations of the two deduplicated
\* entry points in one process, with the clock running
EntryCronIds == {"null", "x"}

NextDedup ==
  \/ Tick
  \/ \E i \in Invs, dryRun \in BOOLEAN, cronId \in EntryCronIds :
       \/ \E c \in Collections : SyncSpecificCollection(i, "p1", c, dryRun, cronId)
       \/ SyncStaticPagesOnly(i, "p1", dryRun, cronId)
  \/ \E i \in Invs : GuardedFlow(i) \/ Return(i)

SpecDedup == Init /\ [][NextDedup]_vars

\* the fetch lists any items of the source, of which any may fail
FetchListed(i) ==
  \E listed \in SUBSET ObjIds : \E failed \in SUBSET listed :
    FetchProcessed(i, "ok", listed, failed)

NextOrphans ==
  \/ \E i \in Invs, dryRun \in BOOLEAN :
       \/ \E c \in Collections : SyncSpecificCollection(i, "p1", c, dryRun, "null")
       \/ SyncStaticPagesOnly(i, "p1", dryRun, "null")
  \/ \E i \in Invs :
       \/ FetchListed(i)
       \/ FetchDone(i, "throw", {})
       \/ \E o \in {"ok", "throw"} : BrowseDone(i, o)
       \/ \E o \in {"ok", "initFail", "deleteFail"} : DeleteDone(i, o)
       \/ \E o \in {"ok", "initFail", "saveFail"} : IndexDone(i, o)
       \/ Return(i)

\* SpecOrphans: the guarded syncs of one process, the source listing any
\* items and the processing of any of them failing
SpecOrphans == Init /\ [][NextOrphans]_vars

\* the incremental static-pages handler (sync-pages.js 446-590) up to its
\* first await: no duplicate check, no lock
IncrementalSync(i, p) ==
  /\ inv[i].pc = "idle"
  /\ inv' = [inv EXCEPT ![i] = [IdleInv EXCEPT !.pc = "incFetch", !.kind = "incremental",
                                               !.proc = p, !.scope = StaticType,
                                               !.fetched = TRUE]]
  /\ UNCHANGED <<now, cronExecutions, activeSyncs, index, calls, rec, wf, drain, req, hist, wh, batch, timer, indexingStats>>

\* getLastSyncTime and fetchAllPages have settled (lines 487-494); a throw
\* goes to the outer catch
IncFetchDone(i, outcome, listed, failed) ==
  /\ inv[i].pc = "incFetch"
  /\ inv' = [inv EXCEPT ![i] =
       IF outcome = "throw"
       THEN Done(inv[i], "threw", FALSE, FALSE)
       ELSE [@ EXCEPT !.pc = "incBrowse", !.items = listed \ failed, !.upstream = listed]]
  /\ UNCHANGED <<now, cronExecutions, activeSyncs, index, calls, rec, wf, drain, req, hist, wh, batch, timer, indexingStats>>

\* lines 520-543: the pages to index are those changed since the last sync;
\* none changed returns early
IncAfterDeletion(r, del, changed) ==
  IF changed = {}
  THEN Done(r, "noChanges", FALSE, r.deleted \/ del)
  ELSE [r EXCEPT !.pc = "incIndex", !.items = changed, !.pending = {},
                 !.deleted = @ \/ del]

\* getAllObjectIDsByType settles and safeDeleteOrphaned runs up to
\* deleteObjects (lines 497-510); the catch of lines 516-518 logs any throw
IncBrowseDone(i, outcome, changed) ==
  LET dec == SafeDeleteDecision(AsSeq(inv[i].items), AsSeq(InScope(index, StaticType)),
                                ThresholdNum, ThresholdDen)
  IN /\ inv[i].pc = "incBrowse"
     /\ changed \subseteq inv[i].items
     /\ inv' = [inv EXCEPT ![i] =
          IF outcome = "throw" \/ dec.what \in {"none", "exceeded"}
          THEN IncAfterDeletion([@ EXCEPT !.aborted = outcome # "throw" /\ dec.what = "exceeded"],
                                FALSE, changed)
          ELSE [@ EXCEPT !.pc = "incDelete", !.pending = Range(dec.orphanedIDs)]]
     /\ UNCHANGED <<now, cronExecutions, activeSyncs, index, calls, rec, wf, drain, req, hist, wh, batch, timer, indexingStats>>

\* deleteObjects of the handler's safeDeleteOrphaned settles
IncDeleteDone(i, outcome, changed) ==
  /\ inv[i].pc = "incDelete"
  /\ changed \subseteq inv[i].items
  /\ index' = IF outcome = "ok" THEN index \ Tagged(StaticType, inv[i].pending) ELSE index
  /\ inv' = [inv EXCEPT ![i] = IncAfterDeletion(@, outcome # "initFail", changed)]
  /\ UNCHANGED <<now, cronExecutions, activeSyncs, calls, rec, wf, drain, req, hist, wh, batch, timer, indexingStats>>

\* lines 548-556: indexObjects and setLastSyncTime settle
IncIndexDone(i, outcome) ==
  /\ inv[i].pc = "incIndex"
  /\ index' = IF outcome = "ok" THEN index \cup Tagged(StaticType, inv[i].items) ELSE index
  /\ inv' = [inv EXCEPT ![i] =
       CASE outcome = "initFail" -> Done(@, "threw", FALSE, @.deleted)
         [] outcome = "saveFail" -> Done(@, "threw", TRUE, @.deleted)
         [] outcome = "ok" -> Done(@, "ok", TRUE, @.deleted)]
  /\ UNCHANGED <<now, cronExecutions, activeSyncs, calls, rec, wf, drain, req, hist, wh, batch, timer, indexingStats>>

IncrementalFlow(i) ==
  \/ \E listed \in SUBSET ObjIds : IncFetchDone(i, "ok", listed, {})
  \/ IncFetchDone(i, "throw", {}, {})
  \/ \E o \in {"ok", "throw"}, changed \in SUBSET ObjIds : IncBrowseDone(i, o, changed)
  \/ \E o \in {"ok", "initFail", "deleteFail"}, changed \in SUBSET ObjIds :
       IncDeleteDone(i, o, changed)
  \/ \E o \in {"ok", "initFail", "saveFail"} : IncIndexDone(i, o)

NextIncremental ==
  \/ \E i \in Invs :
       \/ \E c \in Collections : SyncSpecificCollection(i, "p1", c, FALSE, "null")
       \/ SyncStaticPagesOnly(i, "p1", FALSE, "null")
       \/ IncrementalSync(i, "p1")
  \/ \E i \in Invs : GuardedFlow(i) \/ IncrementalFlow(i) \/ Return(i)

\* SpecIncremental: the entry points that reconcile, in one process
SpecIncremental == Init /\ [][NextIncremental]_vars

\* full syncs of one process with the indexer's counts kept
NextStats ==
  \/ \E i \in Invs, region \in Regions, f \in [1..4 -> BOOLEAN] :
       PerformFullSyncWith(i, "p1", region, f[1], f[2], f[3], f[4], TRUE)
  \/ \E i \in Invs :
       \/ \E ids \in SUBSET ObjIds : FullStaticWith(i, "ok", ids, TRUE)
       \/ FullStaticWith(i, "throw", {}, TRUE)
       \/ \E objs \in FullCMSInputs : FullCMSWith(i, "ok", objs, TRUE)
       \/ FullCMSWith(i, "throw", {}, TRUE)
       \/ \E o \in {"ok", "fail"} : FullClearDone(i, o)
       \/ \E o \in {"ok", "fail"} : FullIndexWith(i, o, TRUE)
       \/ Return(i)

\* SpecStats: performFullSync for any regions in one process, the counts of
\* indexingStats written and read
SpecStats == Init /\ [][NextStats]_vars

\* SpecGuard: the three entry points in one process at one instant, deliveries
\* with ids
NextGuard ==
  \/ \E i \in Invs, dryRun \in BOOLEAN, cronId \in EntryCronIds :
       \/ \E c \in Collections : SyncSpecificCollection(i, "p1", c, dryRun, cronId)
       \/ SyncStaticPagesOnly(i, "p1", dryRun, cronId)
  \/ \E i \in Invs : GuardedFlow(i) \/ Return(i)
  \/ \E i \in Invs, region \in Regions, f \in [1..4 -> BOOLEAN] :
       PerformFullSync(i, "p1", region, f[1], f[2], f[3], f[4])
  \/ \E i \in Invs : FullFlow(i)

SpecGuard == Init /\ [][NextGuard]_vars

\* SpecSync: manual invocations of the two reconciling entry points in one
\* process, the fetch bringing back any set of source ids
SyncFetchInputs == SUBSET ObjIds

SyncFlow(i) ==
  \/ \E ids \in SyncFetchInputs : FetchDone(i, "ok", ids)
  \/ FetchDone(i, "throw", {})
  \/ \E o \in {"ok", "throw"} : BrowseDone(i, o)
  \/ \E o \in {"ok", "initFail", "deleteFail"} : DeleteDone(i, o)
  \/ \E o \in {"ok", "initFail", "saveFail"} : IndexDone(i, o)

NextSync ==
  \/ \E i \in Invs, dryRun \in BOOLEAN :
       \/ \E c \in Collections : SyncSpecificCollection(i, "p1", c, dryRun, "null")
       \/ SyncStaticPagesOnly(i, "p1", dryRun, "null")
  \/ \E i \in Invs : SyncFlow(i) \/ Return(i)

SpecSync == Init /\ [][NextSync]_vars

\* SpecLedger: isDuplicateCronExecution called directly, with every kind of
\* id, while the clock runs; each call is logged with its time and its result
CronCall(cronId) ==
  LET d == IsDuplicateCronExecution(cronExecutions["p1"], cronId, now)
  IN /\ Len(calls) < MaxCalls
     /\ cronExecutions' = [cronExecutions EXCEPT !["p1"] = d.ledger]
     /\ calls' = Append(calls, [id |-> cronId, t |-> now, ret |-> d.ret])
     /\ UNCHANGED <<now, activeSyncs, index, inv, rec, wf, drain, req, hist, wh, batch, timer, indexingStats>>

NextLedger ==
  \/ Tick
  \/ \E cronId \in CronIds \cup Falsy : CronCall(cronId)

SpecLedger == Init /\ [][NextLedger]_vars

\* SpecReconcile: one call of safeDeleteOrphaned on every input within the bounds
BSeq(S, n) == UNION {[1..k -> S] : k \in 0..n}

Thresholds == {<<ThresholdNum, ThresholdDen>>, <<1, 2>>, <<1, 1>>}

InitReconcile ==
  /\ now = 0
  /\ cronExecutions = [p \in Procs |-> [id \in CronIds |-> NoTs]]
  /\ activeSyncs = [p \in Procs |-> {}]
  /\ index = Objects
  /\ inv = [i \in Invs |-> IdleInv]
  /\ calls = <<>>
  /\ \E w \in BSeq(ObjIds, MaxObj), a \in BSeq(ObjIds, MaxLen), th \in Thresholds,
        dryRun \in BOOLEAN :
       rec = [pc |-> "start", webflowIDs |-> w, algoliaIDs |-> a,
              num |-> th[1], den |-> th[2], dryRun |-> dryRun,
              objectIDs |-> <<>>, issued |-> <<>>, fraction |-> <<>>,
              deleted |-> 0, orphaned |-> 0, error |-> "none"]
  /\ WfInit(1)
  /\ QuietRest

\* safeDeleteOrphaned up to its first await; fraction is the pair
\* orphanedIDs.length, algoliaIDs.length of line 331, when it is evaluated
SafeDeleteOrphaned ==
  LET dec == SafeDeleteDecision(rec.webflowIDs, rec.algoliaIDs, rec.num, rec.den)
      deletionPercentage == <<Len(dec.orphanedIDs), Len(rec.algoliaIDs)>>
  IN /\ rec.pc = "start"
     /\ rec' = CASE dec.what = "none" -> [rec EXCEPT !.pc = "returned"]
                 [] dec.what = "exceeded" ->
                      [rec EXCEPT !.pc = "threw", !.error = "safety",
                                  !.fraction = deletionPercentage,
                                  !.orphaned = Len(dec.orphanedIDs)]
                 [] dec.what = "delete" ->
                      [rec EXCEPT !.pc = "deleteObjects", !.objectIDs = dec.orphanedIDs,
                                  !.fraction = deletionPercentage]
     /\ UNCHANGED <<now, cronExecutions, activeSyncs, index, inv, calls, wf, drain, req, hist, wh, batch, timer, indexingStats>>

\* mutant: deleteObjects does not look at dryRun
DeleteObjectsIgnoresDryRun(outcome) ==
  /\ rec.pc = "deleteObjects"
  /\ rec' = IF outcome = "initFail"
            THEN [rec EXCEPT !.pc = "threw", !.error = "init"]
            ELSE IF Len(rec.objectIDs) = 0
                 THEN [rec EXCEPT !.pc = "returned", !.deleted = 0,
                                  !.orphaned = Len(rec.objectIDs)]
                 ELSE [rec EXCEPT !.pc = "deleting",
                                  !.issued = Append(@, rec.objectIDs)]
  /\ UNCHANGED <<now, cronExecutions, activeSyncs, index, inv, calls, wf, drain, req, hist, wh, batch, timer, indexingStats>>

\* deleteObjects after `await this.init()`: init threw, nothing to delete,
\* dry run, or the call of index.deleteObjects
DeleteObjects(outcome) ==
  /\ rec.pc = "deleteObjects"
  /\ rec' = IF outcome = "initFail"
            THEN [rec EXCEPT !.pc = "threw", !.error = "init"]
            ELSE IF Len(rec.objectIDs) = 0
                 THEN [rec EXCEPT !.pc = "returned", !.deleted = 0,
                                  !.orphaned = Len(rec.objectIDs)]
                 ELSE IF rec.dryRun
                      THEN [rec EXCEPT !.pc = "returned", !.deleted = 0,
                                       !.orphaned = Len(rec.objectIDs)]
                      ELSE [rec EXCEPT !.pc = "deleting",
                                       !.issued = Append(@, rec.objectIDs)]
  /\ UNCHANGED <<now, cronExecutions, activeSyncs, index, inv, calls, wf, drain, req, hist, wh, batch, timer, indexingStats>>

\* index.deleteObjects settles
DeleteObjectsSettle(outcome) ==
  /\ rec.pc = "deleting"
  /\ rec' = IF outcome = "ok"
            THEN [rec EXCEPT !.pc = "returned", !.deleted = Len(rec.objectIDs),
                             !.orphaned = Len(rec.objectIDs)]
            ELSE [rec EXCEPT !.pc = "threw", !.error = "delete"]
  /\ UNCHANGED <<now, cronExecutions, activeSyncs, index, inv, calls, wf, drain, req, hist, wh, batch, timer, indexingStats>>

NextReconcile ==
  \/ SafeDeleteOrphaned
  \/ \E o \in {"ok", "initFail"} : DeleteObjects(o)
  \/ \E o \in {"ok", "fail"} : DeleteObjectsSettle(o)

SpecReconcile == InitReconcile /\ [][NextReconcile]_vars

\* ------------------------------------------------- the request scheduler

SchedState == [wf |-> wf, drain |-> drain, req |-> req, hist |-> hist]

Apply(s) == wf' = s.wf /\ drain' = s.drain /\ req' = s.req /\ hist' = s.hist

\* config.getSyncConfig().interRequestDelay: none, or some
Delays == {0, 1}

InitQueue ==
  /\ now = 0
  /\ cronExecutions = [p \in Procs |-> [id \in CronIds |-> NoTs]]
  /\ activeSyncs = [p \in Procs |-> {}]
  /\ index = Objects
  /\ inv = [i \in Invs |-> IdleInv]
  /\ calls = <<>>
  /\ rec = NoRec
  /\ QuietRest
  /\ \E delay \in Delays : WfInit(delay)

\* makeRequest (lines 123-139): the item is pushed and processQueue is called,
\* which runs up to its first await in l, an activation not in use
MakeRequest(r, p, n, elapsed) ==
  LET s0 == [SchedState EXCEPT
               !.wf.requestQueue = Append(@, r),
               !.req[r] = [FreeReq EXCEPT !.st = "queued", !.priority = ItemPriority(p),
                                          !.maxRetries = n]]
  IN /\ req[r].st = "free"
     /\ \A k \in 1..(r - 1) : req[k].st # "free"
     /\ elapsed \in ElapsedInputs(wf)
     /\ \E l \in Loops :
          /\ drain[l].pc = "idle"
          /\ \A k \in 1..(l - 1) : drain[k].pc # "idle"
          /\ Apply(ProcessQueue(s0, l, elapsed))
     /\ UNCHANGED <<syncvars, wh, batch, timer, indexingStats>>

\* `await this.shouldWaitForRateLimit()` resumes (lines 150-163): the
\* throttle sleep begins, or the next item is dispatched
ThrottleResolved(l) ==
  /\ drain[l].pc = "awaitThrottle"
  /\ IF drain[l].wait
     THEN Apply([SchedState EXCEPT !.drain[l].pc = "throttleSleep"])
     ELSE Apply(Dispatch(SchedState, l))
  /\ UNCHANGED <<syncvars, wh, batch, timer, indexingStats>>

\* helpers.sleep(waitTime) of line 155 expires; the item is dispatched
\* whatever the rate limit fields hold by then
ThrottleSleepDone(l) ==
  /\ drain[l].pc = "throttleSleep"
  /\ Apply(Dispatch(SchedState, l))
  /\ UNCHANGED <<syncvars, wh, batch, timer, indexingStats>>

\* the upstream call of executeRequest settles (lines 215-257); rem is the
\* value of rateLimitInfo.remaining after the response interceptor
RespondAfter(l, outcome, rem, elapsed, header) ==
  LET r == drain[l].item
      s0 == [SchedState EXCEPT !.wf.remaining = rem]
      s1 == [s0 EXCEPT !.wf.requestsThisMinute = @ + 1]
  IN /\ drain[l].pc = "executing"
     /\ IF outcome = "ok"
        THEN /\ elapsed \in ElapsedInputs(s1.wf)
             /\ Apply(Settle(s1, l, "fulfilled", elapsed))
        ELSE IF drain[l].attempt < req[r].maxRetries
             THEN \* sleep before the next attempt (retry-after or backoff)
                  Apply([s0 EXCEPT !.drain[l].pc = "retryWait",
                                   !.drain[l].log = Append(@, outcome),
                                   !.drain[l].retryAfter = IF outcome = "429" THEN header
                                                           ELSE NoHeader,
                                   !.drain[l].sleep = RetryDelay(drain[l].attempt, outcome, header)])
             ELSE \* attempt === maxRetries: throw, requestItem.reject(error)
                  /\ elapsed \in ElapsedInputs(s0.wf)
                  /\ Apply(Settle(s0, l, "rejected", elapsed))
     /\ UNCHANGED <<syncvars, wh, batch, timer, indexingStats>>

\* the upstream call settles with a response that has no retry-after header
Respond(l, outcome, rem, elapsed) == RespondAfter(l, outcome, rem, elapsed, NoHeader)

\* executeRequest with maxRetries = 0 has returned undefined without a call
ReturnEmpty(l, elapsed) ==
  /\ drain[l].pc = "returning"
  /\ elapsed \in ElapsedInputs(wf)
  /\ Apply(Settle(SchedState, l, "fulfilled", elapsed))
  /\ UNCHANGED <<syncvars, wh, batch, timer, indexingStats>>

\* the sleep before a retry expires: the next attempt
RetryWaitDone(l) ==
  /\ drain[l].pc = "retryWait"
  /\ Apply([SchedState EXCEPT !.drain[l].pc = "executing", !.drain[l].attempt = @ + 1,
                               !.drain[l].retryAfter = NoHeader, !.drain[l].sleep = 0])
  /\ UNCHANGED <<syncvars, wh, batch, timer, indexingStats>>

\* helpers.sleep(interRequestDelay) of line 174 expires: back to the loop top
SpacingDone(l, elapsed) ==
  /\ drain[l].pc = "spacing"
  /\ elapsed \in ElapsedInputs(wf)
  /\ Apply(LoopTop(SchedState, l, elapsed))
  /\ UNCHANGED <<syncvars, wh, batch, timer, indexingStats>>

\* the steps of the drain loop
DrainStep ==
  \/ \E l \in Loops : ThrottleResolved(l) \/ ThrottleSleepDone(l) \/ RetryWaitDone(l)
  \/ \E l \in Loops, o \in {"ok", "429", "error"}, rem \in 0..QuotaLimit, e \in BOOLEAN :
       Respond(l, o, rem, e)
  \/ \E l \in Loops, e \in BOOLEAN : ReturnEmpty(l, e) \/ SpacingDone(l, e)

NextQueue ==
  \/ \E r \in Reqs, p \in Priorities, n \in RetryBudgets, e \in BOOLEAN : MakeRequest(r, p, n, e)
  \/ DrainStep

\* SpecQueue: up to MaxReq calls of makeRequest, arriving at any point of the drain
SpecQueue == InitQueue /\ [][NextQueue]_vars

\* SpecQueueLive: every upstream call settles and every sleep expires
SpecQueueLive == InitQueue /\ [][NextQueue]_vars /\ WF_vars(DrainStep)

\* no sync runs and the index is untouched
QuietSync ==
  /\ now = 0
  /\ cronExecutions = [p \in Procs |-> [id \in CronIds |-> NoTs]]
  /\ activeSyncs = [p \in Procs |-> {}]
  /\ index = Objects
  /\ inv = [i \in Invs |-> IdleInv]
  /\ calls = <<>>
  /\ rec = NoRec
  /\ QuietRest

\* the retry budgets of the single-request specifications (maxRetries, default 3)
DeepBudgets == 0..MaxBudget

\* one makeRequest call
MakeOne(budgets) ==
  \E p \in Priorities, n \in budgets, e \in BOOLEAN : MakeRequest(1, p, n, e)

\* the client with the quota used up to any point
InitRetry ==
  /\ QuietSync
  /\ \E delay \in Delays, remaining \in 0..QuotaLimit :
        WfInitWith(delay, QuotaLimit, remaining, 0, BufferNum, BufferDen)

NextRetry ==
  \/ MakeOne(DeepBudgets)
  \/ DrainStep

\* SpecRetry: one request with a retry budget of up to MaxBudget, every attempt
\* answered by a success, a 429 or another failure
SpecRetry == InitRetry /\ [][NextRetry]_vars

\* the values of rateLimitInfo after any response headers, of the local
\* counter, and of RATE_LIMIT_SAFETY_BUFFER as a fraction num / den in [0, 1]
InitThrottle ==
  /\ QuietSync
  /\ \E delay \in Delays, limit \in 0..MaxLimit, remaining \in 0..MaxLimit,
        count \in 0..MaxCount, den \in 1..MaxDen :
        \E num \in 0..den : WfInitWith(delay, limit, remaining, count, num, den)

NextThrottle ==
  \/ MakeOne(RetryBudgets)
  \/ DrainStep

\* SpecThrottle: shouldWaitForRateLimit called by the drain loop for one
\* request, from any tracker state
SpecThrottle == InitThrottle /\ [][NextThrottle]_vars

\* a burst: the quota is MaxReq with one request of buffer, as many requests
\* as the quota are made
InitBurst ==
  /\ QuietSync
  /\ \E delay \in Delays : WfInitWith(delay, MaxReq, MaxReq, 0, 1, MaxReq)

\* x-ratelimit-remaining of a response: one less than before
Decremented == IF wf.remaining > 0 THEN wf.remaining - 1 ELSE 0

\* the steps of the drain loop when every upstream call succeeds and
\* decrements the quota
BurstStep ==
  \/ \E l \in Loops : ThrottleResolved(l) \/ ThrottleSleepDone(l)
  \/ \E l \in Loops, e \in BOOLEAN : Respond(l, "ok", Decremented, e) \/ SpacingDone(l, e)

NextBurst ==
  \/ \E r \in Reqs, p \in Priorities, n \in 1..MaxRetries, e \in BOOLEAN : MakeRequest(r, p, n, e)
  \/ BurstStep

\* SpecBurst: MaxReq requests against a quota that only goes down; every
\* upstream call settles and every sleep expires
SpecBurst == InitBurst /\ [][NextBurst]_vars /\ WF_vars(BurstStep)

\* the retry-after header of a failed response: absent, or a number of seconds
RetryAfterHeaders == {NoHeader} \cup 0..MaxRetryAfter

\* the steps of the drain loop, the failed responses with any retry-after header
BackoffStep ==
  \/ \E l \in Loops : ThrottleResolved(l) \/ ThrottleSleepDone(l) \/ RetryWaitDone(l)
  \/ \E l \in Loops, o \in {"ok", "429", "error"}, rem \in 0..QuotaLimit, e \in BOOLEAN,
        h \in RetryAfterHeaders :
       RespondAfter(l, o, rem, e, h)
  \/ \E l \in Loops, e \in BOOLEAN : ReturnEmpty(l, e) \/ SpacingDone(l, e)

NextBackoff ==
  \/ MakeOne(0..MaxAttempts)
  \/ BackoffStep

\* SpecBackoff: one request with a budget of up to MaxAttempts, so that the
\* backoff reaches its cap
SpecBackoff == InitRetry /\ [][NextBackoff]_vars

\* the steps of the drain loop inside one local 60 s window, when no response
\* carries rate-limit headers (rateLimitInfo stays as it is); the window ends
\* with the first throttle sleep, which lasts beyond it (getWaitTime)
SilentStep ==
  \/ \E l \in Loops : ThrottleResolved(l) \/ RetryWaitDone(l)
  \/ \E l \in Loops, o \in {"ok", "429", "error"} : Respond(l, o, wf.remaining, FALSE)
  \/ \E l \in Loops : ReturnEmpty(l, FALSE) \/ SpacingDone(l, FALSE)

NextSilent ==
  \/ \E r \in Reqs, p \in Priorities, n \in RetryBudgets : MakeRequest(r, p, n, FALSE)
  \/ SilentStep

\* SpecSilent: the scheduler during one local window, upstream silent about the quota
SpecSilent == InitQueue /\ [][NextSilent]_vars

\* -------------------------------------------------------------- the webhook

\* what a sender can have signed: the body sent or another one
SignedBodies(body) == {body, CHOOSE b \in WebhookBodies : b # body}

\* the signature headers a request with this timestamp and body may carry
SignatureHeaders(ts, body) ==
  {NoSignature, Malformed}
    \cup {Hmac(k, t, b) : k \in Keys, t \in {ts, 0}, b \in SignedBodies(body)}

\* a request arrives (part_012 26-43): another method than POST is answered
\* 405, otherwise the headers are read and the body is awaited
WebhookRequest(method, ts, sig, env, body) ==
  LET w == [IdleWebhook EXCEPT !.method = method, !.timestamp = ts, !.signature = sig,
                               !.env = env, !.body = body]
  IN /\ wh.pc = "idle"
     /\ wh' = IF method # "POST" THEN Responded(w, 405) ELSE [w EXCEPT !.pc = "readingBody"]
     /\ UNCHANGED <<syncvars, wf, drain, req, hist, batch, timer, indexingStats>>

\* getRawBody settles: the stream failed (500 from the outer catch), or the
\* handler runs from JSON.parse on, with Date.now() = clock
BodyRead(outcome, clock) ==
  /\ wh.pc = "readingBody"
  /\ wh' = IF outcome = "error" THEN Responded(wh, 500) ELSE HandleBody(wh, clock)
  /\ UNCHANGED <<syncvars, wf, drain, req, hist, batch, timer, indexingStats>>

\* cmsFetcher.fetchSingleItem settles (processor.js 76-95)
FetchSettled(outcome) ==
  /\ wh.pc = "fetching"
  /\ wh' = IF outcome = "ok" THEN [wh EXCEPT !.pc = "indexing"] ELSE Responded(wh, 500)
  /\ UNCHANGED <<syncvars, wf, drain, req, hist, batch, timer, indexingStats>>

\* algoliaClient.indexObjects settles (processor.js 98-113)
IndexSettled(outcome) ==
  /\ wh.pc = "indexing"
  /\ IF outcome = "ok"
     THEN /\ index' = index \cup {<<BTO, wh.body.item>>}
          /\ wh' = Responded([wh EXCEPT !.mutation = "saved"], 200)
     ELSE /\ index' = index
          /\ wh' = Responded(wh, 500)
  /\ UNCHANGED <<now, cronExecutions, activeSyncs, inv, calls, rec, wf, drain, req, hist, batch, timer, indexingStats>>

\* algoliaClient.deleteObjects([objectId]) settles (processor.js 135-146)
DeleteSettled(outcome) ==
  /\ wh.pc = "deleting"
  /\ IF outcome = "ok"
     THEN /\ index' = index \ {<<BTO, wh.body.item>>}
          /\ wh' = Responded([wh EXCEPT !.mutation = "deleted"], 200)
     ELSE /\ index' = index
          /\ wh' = Responded(wh, 500)
  /\ UNCHANGED <<now, cronExecutions, activeSyncs, inv, calls, rec, wf, drain, req, hist, batch, timer, indexingStats>>

\* the response is on its way and the handler has returned
WebhookReturn ==
  /\ wh.pc = "responded"
  /\ wh' = IdleWebhook
  /\ UNCHANGED <<syncvars, wf, drain, req, hist, batch, timer, indexingStats>>

NextWebhook ==
  \/ \E ts \in TimestampHeaders, env \in Envs, body \in WebhookBodies :
       \E sig \in SignatureHeaders(ts, body) : WebhookRequest("POST", ts, sig, env, body)
  \/ WebhookRequest("GET", NoTs, NoSignature, NoEnv, NoBody)
  \/ \E clock \in Stamps : BodyRead("ok", clock)
  \/ BodyRead("error", 0)
  \/ \E o \in {"ok", "throw"} : FetchSettled(o) \/ IndexSettled(o) \/ DeleteSettled(o)
  \/ WebhookReturn

\* SpecWebhook: webhook requests with any headers and body, one after the other
SpecWebhook == Init /\ [][NextWebhook]_vars

\* ------------------------------------------------------- the fetcher loops

BatchInputs == UNION {[1..n -> ItemOutcomes] : n \in 0..MaxItems}

\* processBatch(pages, maxConcurrent) is called (part_002 101-104)
ProcessBatch(outcomes, maxConcurrent) ==
  /\ batch.pc \in {"idle", "returned", "threw"}
  /\ batch' = EnterLoop([IdleBatch EXCEPT !.kind = "pages", !.outcomes = outcomes,
                                          !.conc = maxConcurrent])
  /\ UNCHANGED <<syncvars, wf, drain, req, hist, wh, timer, indexingStats>>

\* fetchCollectionById is called (part_002 980-984): the items are listed first
FetchCollectionById(outcomes) ==
  /\ batch.pc \in {"idle", "returned", "threw"}
  /\ batch' = [IdleBatch EXCEPT !.pc = "listing", !.kind = "collection", !.outcomes = outcomes]
  /\ UNCHANGED <<syncvars, wf, drain, req, hist, wh, timer, indexingStats>>

\* webflowClient.getAllCollectionItems settles: its failure is rethrown
\* (part_002 1012-1016), otherwise the loop over the items begins
ItemsListed(outcome) ==
  /\ batch.pc = "listing"
  /\ batch' = IF outcome = "throw" THEN [batch EXCEPT !.pc = "threw"] ELSE EnterLoop(batch)
  /\ UNCHANGED <<syncvars, wf, drain, req, hist, wh, timer, indexingStats>>

\* fetchAllCollections reaches its loop over the configured collections
\* (part_002 881-892); an item is here a collection, fetched by fetchCollectionById
FetchAllCollections(outcomes) ==
  /\ batch.pc \in {"idle", "returned", "threw"}
  /\ batch' = EnterLoop([IdleBatch EXCEPT !.kind = "collections", !.outcomes = outcomes])
  /\ UNCHANGED <<syncvars, wf, drain, req, hist, wh, timer, indexingStats>>

\* the processing of an item of the current chunk settles
ItemSettled(k) ==
  /\ batch.pc = "running"
  /\ k \in Window(batch) \ batch.settled
  /\ batch' = SettleItem(batch, k)
  /\ UNCHANGED <<syncvars, wf, drain, req, hist, wh, timer, indexingStats>>

NextBatch ==
  \/ \E outcomes \in BatchInputs :
       \/ \E c \in 1..MaxConcurrent : ProcessBatch(outcomes, c)
       \/ FetchCollectionById(outcomes)
       \/ FetchAllCollections(outcomes)
  \/ \E o \in {"ok", "throw"} : ItemsListed(o)
  \/ \E k \in 1..MaxItems : ItemSettled(k)

\* SpecBatch: runs of the three fetcher loops, one after the other, over any
\* items of which any may fail
SpecBatch == Init /\ [][NextBatch]_vars

\* Date.now() advances by a second
ClockTick ==
  /\ timer.now < MaxClock * 1000
  /\ timer' = [timer EXCEPT !.now = @ + 1000, !.wait = NoWait]
  /\ UNCHANGED <<syncvars, wf, drain, req, hist, wh, batch, indexingStats>>

\* updateRateLimitInfo with an x-ratelimit-reset header of h seconds
UpdateResetTime(h) ==
  /\ timer' = [timer EXCEPT !.resetTime = h * 1000, !.wait = NoWait]
  /\ UNCHANGED <<syncvars, wf, drain, req, hist, wh, batch, indexingStats>>

\* shouldWaitForRateLimit starts a new window once 60 s have passed
WindowCheck ==
  /\ timer.now - timer.minuteStartTime >= 60000
  /\ timer' = [timer EXCEPT !.minuteStartTime = timer.now, !.wait = NoWait]
  /\ UNCHANGED <<syncvars, wf, drain, req, hist, wh, batch, indexingStats>>

\* a call of getWaitTime returns
CallGetWaitTime ==
  /\ timer' = [timer EXCEPT !.wait = GetWaitTime(timer.resetTime, timer.now,
                                                 timer.minuteStartTime)]
  /\ UNCHANGED <<syncvars, wf, drain, req, hist, wh, batch, indexingStats>>

\* the reset headers: zero, or a time around the present
ResetHeaders == {0} \cup {h \in 1..(MaxClock + 2) : h * 1000 - timer.now \in -1000..2000}

NextTimer ==
  \/ ClockTick
  \/ \E h \in ResetHeaders : UpdateResetTime(h)
  \/ WindowCheck
  \/ CallGetWaitTime

\* SpecTimer: getWaitTime called at any time, with any reset time known
SpecTimer == Init /\ [][NextTimer]_vars

\* ------------------------------------------------------------- claims

InBody(i) == inv[i].pc \notin {"idle", "done"}

\* the invocations, other than j, that hold syncId s in process p
Holders(p, s, j) == {i \in Invs \ {j} : InBody(i) /\ inv[i].proc = p /\ inv[i].syncId = s}

\* slot j goes from idle to an invocation of an entry point
CallStep(j) == inv[j].pc = "idle" /\ inv'[j].pc # "idle"

DeniedResults == {"inProgress", "threwInProgress"}

\* C1: in one process at most one invocation at a time is between
\* startSync(s) and endSync(s), for every syncId s and every interleaving
C1_MutualExclusion ==
  \A p \in Procs, s \in SyncIds : Cardinality(Holders(p, s, 0)) <= 1

\* a second invocation for the syncId was turned away while the first holds it
C1_Witness ==
  \E i, j \in Invs :
    /\ InBody(i)
    /\ inv[j].pc = "done" /\ inv[j].result \in DeniedResults
    /\ inv[j].proc = inv[i].proc /\ inv[j].syncId = inv[i].syncId

\* C2: an attempt for s is denied exactly when s was acquired and not yet
\* released in that process: granted, then denied, and granted again after endSync
C2_GrantedThenDenied ==
  [][\A j \in Invs :
       (CallStep(j) /\ inv'[j].syncId \in SyncIds)
         => ((inv'[j].result \in DeniedResults)
               <=> (Holders(inv'[j].proc, inv'[j].syncId, j) # {}))]_vars

\* slot 1 ran a static-pages sync to its end in p1 and slot 2 holds the same
\* lock in p1 now: a grant that follows a release
C2_Witness ==
  /\ inv[1].pc = "done" /\ inv[1].kind = "static" /\ inv[1].result = "ok"
  /\ InBody(2) /\ inv[2].syncId = StaticSyncId /\ inv[2].proc = "p1"

\* C3: s is in activeSyncs exactly while one invocation that acquired s has
\* not exited; with no sync running the set is empty
C3_LockIffInFlight ==
  /\ \A p \in Procs : activeSyncs[p] \subseteq SyncIds
  /\ \A p \in Procs, s \in SyncIds :
       (s \in activeSyncs[p]) <=> (Cardinality(Holders(p, s, 0)) = 1)

\* both slots left a guarded sync, one by the early return for an empty
\* source and one by a thrown error, and nothing is held
C3_Witness ==
  /\ inv[1].pc = "done" /\ inv[1].result = "noItems"
  /\ inv[2].pc = "done" /\ inv[2].result = "threw" /\ inv[2].fetched
  /\ \A p \in Procs : activeSyncs[p] = {}

\* C4: a call for b is never denied because a different syncId a is held
C4_OtherIdsDoNotBlock ==
  [][\A j \in Invs :
       (/\ CallStep(j)
        /\ inv'[j].syncId \in SyncIds
        /\ activeSyncs[inv'[j].proc] # {}
        /\ Holders(inv'[j].proc, inv'[j].syncId, j) = {})
         => inv'[j].result \notin DeniedResults]_vars

\* full syncs of two regions are in flight together in one process
C4_Witness ==
  /\ InBody(1) /\ InBody(2)
  /\ inv[1].proc = inv[2].proc
  /\ inv[1].syncId = FullSyncId("null") /\ inv[2].syncId = FullSyncId("emea")

\* the id of a call was recorded and is not older than the retention window
SeenRecently(ledger, cronId, t) ==
  cronId \in CronIds /\ ledger[cronId] # NoTs /\ t - ledger[cronId] <= TwoHours

\* C5: the first call with x returns false, calls less than 2 h after the
\* recording return true, and a call more than 2 h after it returns false
\* and records x again
C5_DedupWindow ==
  /\ \A k \in 1..Len(calls) :
       calls[k].id \in CronIds =>
         LET earlier == {j \in 1..(k - 1) : calls[j].id = calls[k].id}
             recorded == {j \in earlier : ~calls[j].ret}
         IN /\ earlier = {} => ~calls[k].ret
            /\ recorded # {} =>
                 LET r == CHOOSE j \in recorded : \A m \in recorded : m <= j
                 IN /\ calls[k].t - calls[r].t < TwoHours => calls[k].ret
                    /\ calls[k].t - calls[r].t > TwoHours => ~calls[k].ret
  /\ (calls # <<>> /\ calls[Len(calls)].id \in CronIds /\ ~calls[Len(calls)].ret)
       => cronExecutions["p1"][calls[Len(calls)].id] = calls[Len(calls)].t

\* x was accepted, skipped within the window, and accepted again after it
C5_Witness ==
  \E a, b, c \in 1..Len(calls) :
    /\ a < b /\ b < c
    /\ calls[a].id = "x" /\ calls[b].id = "x" /\ calls[c].id = "x"
    /\ ~calls[a].ret /\ calls[b].ret /\ ~calls[c].ret
    /\ calls[b].t - calls[a].t < TwoHours
    /\ calls[c].t - calls[a].t > TwoHours

\* C6: a call with a falsy id returns false and leaves the ledger as it was
C6_FalsyIdIsNoOp ==
  [][(/\ Len(calls') = Len(calls) + 1
      /\ calls'[Len(calls')].id \in Falsy)
       => (~calls'[Len(calls')].ret /\ cronExecutions' = cronExecutions)]_vars

\* a falsy id was given twice, the second time while the ledger held an entry
\* older than the window, and the entry is still there
C6_Witness ==
  \E a, b \in 1..Len(calls), id \in CronIds :
    /\ a < b
    /\ calls[a].id \in Falsy /\ calls[b].id = calls[a].id
    /\ cronExecutions["p1"][id] # NoTs
    /\ cronExecutions["p1"][id] < calls[b].t - TwoHours

\* C7: the duplicate check comes before the lock check; a duplicate delivery
\* returns the 'skipped, duplicate' result, takes no lock, fetches nothing and
\* neither writes to nor deletes from the index
C7_DuplicateSkipsFirst ==
  [][\A j \in Invs :
       CallStep(j) =>
         /\ SeenRecently(cronExecutions[inv'[j].proc], inv'[j].cronId, now)
              => inv'[j].result = "duplicate"
         /\ inv'[j].result = "duplicate"
              => /\ inv'[j].pc = "done"
                 /\ ~inv'[j].fetched /\ ~inv'[j].saved /\ ~inv'[j].deleted
                 /\ activeSyncs' = activeSyncs
                 /\ index' = index]_vars

\* a duplicate delivery was skipped as duplicate while the lock of its
\* syncId was held by a running sync
C7_Witness ==
  \E i, j \in Invs :
    /\ InBody(i)
    /\ inv[j].pc = "done" /\ inv[j].result = "duplicate"
    /\ inv[j].proc = inv[i].proc /\ inv[j].syncId = inv[i].syncId

\* C8: an invocation whose syncId is in flight returns the 'skipped, already
\* in progress' result from every guarded entry point, and never throws
C8_ContentionNeverThrows ==
  \A i \in Invs : inv[i].result # "threwInProgress"

\* C9: of two syncs of one collection started in two processes, the second
\* is turned away, so the two never run together
C9_AcrossProcesses ==
  \A i, j \in Invs :
    (i # j /\ InBody(i) /\ InBody(j) /\ inv[i].kind = "collection" /\ inv[j].kind = "collection")
      => inv[i].syncId # inv[j].syncId

\* the ids of indexedIds that are not in sourceIds, by the claim's words
OrphanPositions(w, a) == {k \in DOMAIN a : \A m \in DOMAIN w : w[m] # a[k]}

OrphanIdSet(w, a) == {a[k] : k \in OrphanPositions(w, a)}

C10_Applies ==
  /\ rec.pc # "none"
  /\ ~rec.dryRun
  /\ OrphanPositions(rec.webflowIDs, rec.algoliaIDs) # {}
  /\ Cardinality(OrphanPositions(rec.webflowIDs, rec.algoliaIDs)) * rec.den
       <= rec.num * Len(rec.algoliaIDs)

\* C10: with at least one orphan, a deletion fraction at or below the
\* threshold and dryRun false, the delete that safeDeleteOrphaned issues is
\* for exactly the indexed ids absent from the source, and the report has
\* deleted = orphaned = their number
C10_DeletesExactlyOrphans ==
  C10_Applies =>
    LET n == Cardinality(OrphanPositions(rec.webflowIDs, rec.algoliaIDs))
    IN /\ rec.error # "safety"
       /\ \A k \in DOMAIN rec.issued :
            Range(rec.issued[k]) = OrphanIdSet(rec.webflowIDs, rec.algoliaIDs)
       /\ rec.pc = "returned" =>
            /\ Len(rec.issued) = 1
            /\ rec.deleted = n /\ rec.orphaned = n

\* a call whose deletion fraction equals the threshold 3/5 has deleted
C10_Witness ==
  /\ C10_Applies
  /\ rec.pc = "returned"
  /\ rec.num = ThresholdNum /\ rec.den = ThresholdDen
  /\ Cardinality(OrphanPositions(rec.webflowIDs, rec.algoliaIDs)) * rec.den
       = rec.num * Len(rec.algoliaIDs)
  /\ rec.webflowIDs # <<>>

\* the number of orphans and the size of the index of the call, by the claim's words
OrphanCount == Cardinality(OrphanPositions(rec.webflowIDs, rec.algoliaIDs))

FractionExceeds == OrphanCount * rec.den > rec.num * Len(rec.algoliaIDs)

\* C11: when the orphans are a strictly larger fraction of the indexed ids
\* than the threshold, safeDeleteOrphaned issues no delete, does not return
\* a report, and fails with the safety error carrying both counts
C11_AbortsAboveThreshold ==
  (rec.pc # "none" /\ FractionExceeds) =>
    /\ rec.issued = <<>>
    /\ rec.pc \in {"start", "threw"}
    /\ rec.pc = "threw" =>
         /\ rec.error = "safety"
         /\ rec.fraction = <<OrphanCount, Len(rec.algoliaIDs)>>

\* four orphans of five at threshold 3/5, dryRun false: the call has failed
C11_Witness ==
  /\ rec.pc = "threw" /\ rec.error = "safety" /\ ~rec.dryRun
  /\ rec.num = ThresholdNum /\ rec.den = ThresholdDen
  /\ OrphanCount = 4 /\ Len(rec.algoliaIDs) = 5

\* C13: with no indexed id, safeDeleteOrphaned returns orphaned = 0 and
\* deleted = 0 whatever the source ids are, issues no delete, and the
\* deletion fraction is never computed with a zero denominator
C13_EmptyIndexIsNoOp ==
  /\ (rec.pc # "none" /\ rec.algoliaIDs = <<>>) =>
       /\ rec.pc \in {"start", "returned"}
       /\ rec.issued = <<>> /\ rec.fraction = <<>>
       /\ rec.deleted = 0 /\ rec.orphaned = 0
  /\ (rec.pc # "none" /\ rec.fraction # <<>>) => rec.fraction[2] > 0

\* an empty index with a non-empty source has returned
C13_Witness ==
  /\ rec.pc = "returned" /\ rec.algoliaIDs = <<>> /\ rec.webflowIDs # <<>>

\* C15: with dryRun true no delete is issued to the index; a call that
\* passes the safety check reports deleted = 0 and orphaned = the number of
\* orphans, and a call above the threshold still fails with the safety error
C15_DryRunDeletesNothing ==
  (rec.pc # "none" /\ rec.dryRun) =>
    /\ rec.issued = <<>>
    /\ rec.pc # "deleting"
    /\ rec.pc = "returned" =>
         /\ ~FractionExceeds
         /\ rec.deleted = 0 /\ rec.orphaned = OrphanCount
    /\ (FractionExceeds /\ rec.pc = "threw") => rec.error = "safety"

\* a dry run with orphans below the threshold has returned its report
C15_Witness ==
  /\ rec.pc = "returned" /\ rec.dryRun /\ OrphanCount > 0

\* a dry run above the threshold has failed with the safety error
C15_WitnessAbort ==
  /\ rec.pc = "threw" /\ rec.dryRun /\ rec.error = "safety"

\* C12: a reconciliation pass of a sync deletes at most threshold * (the
\* indexed ids it browsed) entries, and a sync whose fetch brought back
\* fewer than 40% of the indexed ids (an empty fetch included) goes on to
\* delete nothing
C12_NoMassDeletion ==
  [][\A i \in Invs :
       /\ (inv[i].pc = "browse" /\ inv'[i].pc = "delete") =>
            /\ Cardinality(inv'[i].pending) * ThresholdDen
                 <= ThresholdNum * Cardinality(InScope(index, inv[i].scope))
            /\ ~inv[i].sparse
            /\ inv[i].items # {}
       /\ (inv[i].pc = "delete" /\ inv'[i].pc # "delete") =>
            index \ index' \subseteq Tagged(inv[i].scope, inv[i].pending)]_vars

\* C14: a sync whose reconciliation aborted on the safety threshold ends
\* with an error for its caller, never with a plain success
C14_AbortReachesCaller ==
  \A i \in Invs : (inv[i].pc = "done" /\ inv[i].aborted) => inv[i].result = "threw"

\* ------------------------------------------- claims: the request scheduler

Settled == {"fulfilled", "rejected"}

ActiveLoops == {l \in Loops : drain[l].pc # "idle"}

InFlightLoops == {l \in Loops : drain[l].pc \in {"executing", "retryWait"}}

\* loop l takes request r off the queue in this step
Dispatches(l, r) == drain[l].item = NoReq /\ drain'[l].item = r /\ r # NoReq

\* request r is given to makeRequest in this step
Enqueues(r) == req[r].st = "free" /\ req'[r].st # "free"

C17_SingleDrainLoop ==
  [][/\ Cardinality(ActiveLoops) <= 1
     /\ Cardinality(ActiveLoops') <= 1
     /\ \A r \in Reqs :
          (Enqueues(r) /\ wf.isProcessingQueue) =>
            /\ wf'.requestQueue = Append(wf.requestQueue, r)
            /\ drain' = drain
            /\ hist' = hist]_vars

\* a request is executing while two calls that arrived meanwhile wait
C17_Witness ==
  /\ wf.isProcessingQueue
  /\ \E l \in Loops : drain[l].pc = "executing"
  /\ Len(wf.requestQueue) = 2

\* C18: at most one request is with the upstream, or waiting to be retried,
\* at any time, however the callers' makeRequest calls interleave
C18_OneInFlight ==
  /\ Cardinality(InFlightLoops) <= 1
  /\ Cardinality({r \in Reqs : req[r].st = "dispatched"}) <= 1

\* a request waits for its retry while the two others are queued
C18_Witness ==
  /\ \E l \in Loops : drain[l].pc = "retryWait"
  /\ Cardinality({r \in Reqs : req[r].st = "queued"}) = 2

\* C19: a request is shifted off the queue at most once and resolve / reject
\* is called for it at most once; a queued request is in the queue once and
\* untouched; a dispatched one is out of the queue, held by one loop and
\* unsettled; a settled one was shifted once, settled once, is out of the
\* queue and held by no loop
C19_SettledOnce ==
  \A r \in Reqs :
    LET inQueue == {k \in DOMAIN wf.requestQueue : wf.requestQueue[k] = r}
        holders == {l \in Loops : drain[l].item = r}
    IN /\ req[r].shifted <= 1 /\ req[r].settled <= 1
       /\ req[r].st = "free" => (inQueue = {} /\ holders = {})
       /\ req[r].st = "queued" =>
            (Cardinality(inQueue) = 1 /\ holders = {} /\ req[r].shifted = 0 /\ req[r].settled = 0)
       /\ req[r].st = "dispatched" =>
            (inQueue = {} /\ Cardinality(holders) = 1 /\ req[r].shifted = 1 /\ req[r].settled = 0)
       /\ req[r].st \in Settled =>
            (inQueue = {} /\ holders = {} /\ req[r].shifted = 1 /\ req[r].settled = 1)

\* one request was fulfilled and another rejected, and the loop is at work
\* on a third
C19_Witness ==
  /\ \E r \in Reqs : req[r].st = "fulfilled"
  /\ \E r \in Reqs : req[r].st = "rejected"
  /\ \E r \in Reqs : req[r].st = "dispatched"

Executions(l) == Len(drain[l].log) + (IF drain[l].pc = "executing" THEN 1 ELSE 0)

OnlyErrors(log) == \A k \in 1..Len(log) : log[k] = "error"

HasRateLimit(log) == \E k \in 1..Len(log) : log[k] = "429"

\* this step rejects the promise of r, whose executeRequest l awaited
Rejects(l, r) ==
  /\ drain[l].pc = "executing" /\ drain[l].item = r
  /\ req[r].st = "dispatched" /\ req'[r].st = "rejected"

\* this step sends the executeRequest of l to sleep before another attempt
Retries(l) == drain[l].pc = "executing" /\ drain'[l].pc = "retryWait"

\* C21: a request with retry budget n >= 1 whose attempts all fail with a
\* failure other than a 429 is executed exactly n times: it is retried as long
\* as fewer than n executions were made, and rejected at the n-th
C21_ExactlyNExecutions ==
  [][\A l \in Loops :
       /\ (Retries(l) /\ OnlyErrors(drain'[l].log))
            => Executions(l) < req[drain[l].item].maxRetries
       /\ \A r \in Reqs :
            (Rejects(l, r) /\ OnlyErrors(drain[l].log))
              => Executions(l) = req[r].maxRetries]_vars

\* the third execution of a request with budget 3, after two failures
C21_Witness ==
  \E l \in Loops :
    /\ drain[l].pc = "executing" /\ drain[l].item # NoReq
    /\ req[drain[l].item].maxRetries = 3
    /\ drain[l].log = <<"error", "error">>

\* C22: the first 429 of a request does not consume a retry slot: a request
\* with budget n that has received a 429 is rejected only after n + 1 executions
C22_First429IsFree ==
  [][\A l \in Loops, r \in Reqs :
       (Rejects(l, r) /\ HasRateLimit(drain[l].log))
         => Executions(l) = req[r].maxRetries + 1]_vars

\* C30: a request that failed transiently is back in the queue, in the queued
\* state, while it waits for its retry delay
C30_RetryWaitsInQueue ==
  \A l \in Loops :
    drain[l].pc = "retryWait"
      => /\ req[drain[l].item].st = "queued"
         /\ drain[l].item \in Range(wf.requestQueue)

\* limit * fraction lies between two integers
FractionalBuffer == (wf.limit * wf.bufferNum) % wf.bufferDen # 0

\* the local counter is below limit - floor(limit * fraction)
CounterBelowCap ==
  wf.requestsThisMinute < wf.limit - ((wf.limit * wf.bufferNum) \div wf.bufferDen)

\* C23: for all limit, remaining >= 0 and every buffer fraction num / den in
\* [0, 1], with the local counter below its cap, shouldWaitForRateLimit
\* returns true exactly when remaining <= limit * fraction
C23_ThrottleIffWithinBuffer ==
  \A l \in Loops :
    (drain[l].pc = "awaitThrottle" /\ CounterBelowCap)
      => (drain[l].wait <=> wf.remaining * wf.bufferDen <= wf.limit * wf.bufferNum)

\* true was returned for the largest remaining below a fractional limit * fraction
C23_Witness ==
  \E l \in Loops :
    /\ drain[l].pc = "awaitThrottle" /\ CounterBelowCap /\ drain[l].wait
    /\ FractionalBuffer
    /\ wf.remaining > 0
    /\ (wf.remaining + 1) * wf.bufferDen > wf.limit * wf.bufferNum

\* the number of dispatches a full quota allows before the buffer is reached
FreeDispatches == wf.limit - ((wf.limit * wf.bufferNum) \div wf.bufferDen)

\* C24: with remaining = limit at the start and every response taking one off
\* remaining, the throttle predicate is false before each of the first
\* limit - buffer dispatches and true from then on; those first requests are
\* dispatched without a throttle sleep, the next ones only out of one, and
\* every request made is settled in the end
C24_BurstThrottledAtBuffer ==
  /\ [](\A l \in Loops :
          drain[l].pc = "awaitThrottle" => (drain[l].wait <=> Len(hist) >= FreeDispatches))
  /\ [][\A l \in Loops, r \in Reqs :
          Dispatches(l, r) =>
            IF Len(hist) < FreeDispatches
            THEN drain[l].pc = "awaitThrottle"
            ELSE drain[l].pc = "throttleSleep"]_vars
  /\ \A r \in Reqs : (req[r].st = "queued") ~> (req[r].st \in Settled)

\* all requests are fulfilled, the last one dispatched after the buffer was reached
C24_Witness ==
  /\ \A r \in Reqs : req[r].st = "fulfilled"
  /\ Len(hist) = MaxReq
  /\ Len(hist) > FreeDispatches
  /\ FreeDispatches >= 1

\* ------------------------------------------------------ claims: the ledger

\* this step is a call of isDuplicateCronExecution with a non-falsy id
LedgerCall ==
  /\ Len(calls') = Len(calls) + 1
  /\ calls'[Len(calls')].id \in CronIds

\* C28: a duplicate hit leaves the recorded timestamp of the id as it was, and
\* a lookup more than 2 hours after the recording of the id is accepted
\* (returns false) however recently the id was looked up before
C28_HitKeepsTimestamp ==
  /\ [][LedgerCall =>
          LET c == calls'[Len(calls')]
          IN c.ret => /\ cronExecutions["p1"][c.id] # NoTs
                      /\ cronExecutions'["p1"][c.id] = cronExecutions["p1"][c.id]]_vars
  /\ [](\A k \in 1..Len(calls) :
          calls[k].id \in CronIds =>
            LET recorded == {j \in 1..(k - 1) : calls[j].id = calls[k].id /\ ~calls[j].ret}
            IN recorded # {} =>
                 LET r == CHOOSE j \in recorded : \A m \in recorded : m <= j
                 IN calls[k].t - calls[r].t > TwoHours => ~calls[k].ret)

\* x was recorded, hit again two hours later, and accepted one hour after the hit
C28_Witness ==
  \E a, b, c \in 1..Len(calls) :
    /\ a < b /\ b < c
    /\ calls[a].id = "x" /\ calls[b].id = "x" /\ calls[c].id = "x"
    /\ ~calls[a].ret /\ calls[b].ret /\ ~calls[c].ret
    /\ \A j \in (a + 1)..(c - 1) : calls[j].id = "x" => calls[j].ret
    /\ calls[c].t - calls[b].t < TwoHours
    /\ calls[c].t - calls[a].t > TwoHours

\* C29: right after a call with a non-falsy id at time t the ledger holds no
\* entry recorded before t - 2h, and every entry that was recorded at t - 2h or
\* later is still there with its timestamp
C29_LedgerAfterCall ==
  [][LedgerCall =>
       \A y \in CronIds :
         /\ cronExecutions'["p1"][y] # NoTs => cronExecutions'["p1"][y] >= now - TwoHours
         /\ (cronExecutions["p1"][y] # NoTs /\ cronExecutions["p1"][y] >= now - TwoHours)
              => cronExecutions'["p1"][y] = cronExecutions["p1"][y]]_vars

\* after a call for another id, an entry exactly two hours old is in the ledger
C29_Witness ==
  /\ calls # <<>>
  /\ LET c == calls[Len(calls)]
     IN /\ c.id \in CronIds
        /\ c.t = now
        /\ \E y \in CronIds \ {c.id} : cronExecutions["p1"][y] = c.t - TwoHours

\* ------------------------------------------------------ claims: dry runs

\* C27: syncSpecificCollection(slug, {dryRun: true}) issues neither
\* saveObjects nor deleteObjects, whatever the source and the index hold
C27_CollectionDryRunIsReadOnly ==
  \A i \in Invs :
    (inv[i].kind = "collection" /\ (inv[i].dryRun \/ inv[i].result = "dryRun"))
      => ~inv[i].saved /\ ~inv[i].deleted

\* ------------------------------------------------------ claims: the webhook

\* the request carries a timestamp and a signature, a secret is configured for
\* it, the timestamp was less than 5 minutes old when it was checked, and the
\* signature is the digest of timestamp and raw body under that secret
GenuineRequest ==
  LET secret == WebhookSecret(wh.env, wh.body.trigger)
  IN /\ wh.timestamp # NoTs /\ wh.signature.kind = "hmac" /\ secret # "none"
     /\ wh.timestamp \in Stamps => wh.clock - wh.timestamp < FiveMinutes
     /\ wh.signature.secret = secret
     /\ wh.signature.timestamp = wh.timestamp
     /\ wh.signature.body = wh.body

\* C25: processWebhookEvent is invoked, and the index written to or deleted
\* from, only after validateWebhookSignature has returned true for the raw
\* body; a request whose timestamp is 5 minutes old or older, whose signature
\* does not match, or which lacks timestamp, signature or secret is rejected
\* and changes nothing in the index
C25_ProcessedOnlyIfValidated ==
  /\ []((wh.invoked \/ wh.mutation # "none") => (wh.validated /\ GenuineRequest))
  /\ []((wh.pc = "responded" /\ wh.method = "POST" /\ wh.body.json /\ ~GenuineRequest)
          => (wh.status \in {401, 500} /\ ~wh.invoked /\ wh.mutation = "none"))
  /\ [][index' # index => (wh.validated /\ GenuineRequest)]_vars

\* a signed, fresh deletion event was processed and its object is gone
C25_Witness ==
  /\ wh.pc = "responded" /\ wh.status = 200
  /\ wh.validated /\ wh.invoked /\ wh.mutation = "deleted"
  /\ wh.timestamp \in Stamps
  /\ <<BTO, wh.body.item>> \notin index

\* ------------------------------------------------ claims: the fetcher loops

\* C26: the failure of one item (a page, a CMS item, or a collection inside
\* fetchAllCollections) does not end the run: the loop goes through every
\* item and returns exactly the items whose processing succeeded, in order
C26_ItemFailureIsIsolated ==
  /\ batch.pc = "threw" => (batch.kind = "collection" /\ batch.pos = 0 /\ batch.settled = {})
  /\ batch.pc = "returned" =>
       /\ batch.pos = Len(batch.outcomes)
       /\ batch.processed = Collected(batch.outcomes, 1, Len(batch.outcomes))
  /\ batch.pc = "running" =>
       batch.processed = Collected(batch.outcomes, 1, batch.pos)

\* a run whose first item failed has returned the later items
C26_Witness ==
  /\ batch.pc = "returned"
  /\ Len(batch.outcomes) >= 2
  /\ batch.outcomes[1] = "throw"
  /\ batch.processed # <<>>

\* ------------------------------------- claims: fulfilment and the throttle

\* C39: for every retry budget >= 0 the promise of a request is fulfilled only
\* in the step in which an upstream call of that request succeeds; a request
\* is never fulfilled without having been executed
C39_FulfilledOnlyBySuccess ==
  [][\A r \in Reqs :
       (req[r].st # "fulfilled" /\ req'[r].st = "fulfilled")
         => \E l \in Loops : drain[l].item = r /\ drain[l].pc = "executing"]_vars

\* this step is one evaluation of shouldWaitForRateLimit by loop l and nothing
\* else that touches the rate limit fields: the loop is started by makeRequest,
\* or it comes back from the inter-request delay
EvaluatesOnly(l) ==
  drain[l].pc \in {"idle", "spacing"} /\ drain'[l].pc = "awaitThrottle"

\* C32: shouldWaitForRateLimit is read-only: an evaluation leaves limit,
\* remaining and requestsThisMinute as they were, also when the local
\* one-minute window has elapsed
C32_ThrottleCheckIsReadOnly ==
  [][\A l \in Loops :
       EvaluatesOnly(l) =>
         /\ wf'.limit = wf.limit
         /\ wf'.remaining = wf.remaining
         /\ wf'.requestsThisMinute = wf.requestsThisMinute]_vars

\* the upstream calls known to have been made for request r: all of its budget
\* when it was rejected, at least one when it was fulfilled with a budget, and
\* those of the executeRequest in progress otherwise
AttemptsOf(r) ==
  CASE req[r].st = "rejected" -> req[r].maxRetries
    [] req[r].st = "fulfilled" -> IF req[r].maxRetries >= 1 THEN 1 ELSE 0
    [] OTHER -> IF \E l \in Loops : drain[l].item = r
                THEN Executions(CHOOSE l \in Loops : drain[l].item = r)
                ELSE 0

RECURSIVE AttemptsOfAll(_)
AttemptsOfAll(n) == IF n = 0 THEN 0 ELSE AttemptsOf(n) + AttemptsOfAll(n - 1)

\* C34: when no response carries rate-limit headers, the upstream calls made
\* within one local 60 s window never number more than the quota limit
C34_AttemptsWithinQuota == AttemptsOfAll(MaxReq) <= wf.limit

\* 1000, 2000, 4000, 8000, 10000, 10000, ...
BackoffTable(k) == IF k <= 4 THEN <<1000, 2000, 4000, 8000>>[k] ELSE 10000

\* C31: after a failure other than a 429 on attempt k < budget the sleep
\* before attempt k + 1 is min(1000 * 2^(k-1), 10000) ms; after a 429 it is
\* retry-after + 2 seconds, with 60 s for an absent or zero header, and no
\* backoff on top; every failure uses exactly one turn of the budget
C31_RetryDelays ==
  /\ [](\A l \in Loops :
          drain[l].pc = "retryWait" =>
            LET k == drain[l].attempt
                h == drain[l].retryAfter
            IN /\ k = Len(drain[l].log) /\ k < req[drain[l].item].maxRetries
               /\ drain[l].log[k] = "error" => drain[l].sleep = BackoffTable(k)
               /\ drain[l].log[k] = "429" =>
                    drain[l].sleep = IF h \in 1..MaxRetryAfter THEN (h + 2) * 1000 ELSE 62000)
  /\ [][\A l \in Loops :
          drain[l].pc = "retryWait" =>
            \/ drain'[l] = drain[l]
            \/ /\ drain'[l].pc = "executing"
               /\ drain'[l].attempt = drain[l].attempt + 1]_vars

\* the wait after the fifth failure is capped at 10 s
C31_Witness ==
  \E l \in Loops :
    /\ drain[l].pc = "retryWait" /\ drain[l].attempt = 5
    /\ drain[l].log[5] = "error" /\ drain[l].sleep = 10000
    /\ drain[l].log[1] = "429"

\* C33: getWaitTime returns resetTime - now + 1000 when the reset time is
\* known and strictly in the future, and otherwise
\* max(60000 - (now - minuteStartTime) + 2000, 5000); the wait is always
\* positive and at least 5000 ms in the second case
C33_WaitTime ==
  timer.wait # NoWait =>
    LET elapsed == timer.now - timer.minuteStartTime
        ahead == timer.resetTime \notin {NullReset, 0} /\ timer.resetTime > timer.now
    IN /\ timer.wait > 0
       /\ ahead => timer.wait = timer.resetTime - timer.now + 1000
       /\ ~ahead => /\ timer.wait >= 5000
                    /\ timer.wait = IF elapsed <= 57000 THEN 62000 - elapsed ELSE 5000

\* the window has run for 59 s and the known reset time is the present
\* instant: the wait is the minimum of 5 s
C33_Witness ==
  /\ timer.wait = 5000
  /\ timer.now - timer.minuteStartTime = 59000
  /\ timer.resetTime = timer.now

\* C35: the duplicate check itself records the id, before the lock check and
\* before any work: a delivery with a fresh id is recorded also when the
\* lock denies it, no exit of a sync (a throw included) removes or changes
\* a recorded id, and every redelivery within 2 h of the recording is
\* skipped as a duplicate
C35_RecordedBeforeLockAndWork ==
  [][/\ \A j \in Invs :
          (CallStep(j) /\ inv'[j].cronId \in CronIds) =>
            LET p == inv'[j].proc
                x == inv'[j].cronId
            IN /\ SeenRecently(cronExecutions[p], x, now) => inv'[j].result = "duplicate"
               /\ inv'[j].result # "duplicate" => cronExecutions'[p][x] = now
               /\ inv'[j].result = "duplicate" => cronExecutions'[p][x] = cronExecutions[p][x]
     /\ (\A j \in Invs : ~CallStep(j)) => cronExecutions' = cronExecutions]_vars

\* a delivery of x was denied by the lock, and its redelivery was skipped
\* as a duplicate
C35_Witness ==
  \E i, j \in Invs :
    /\ inv[i].pc = "done" /\ inv[i].result = "inProgress"
    /\ inv[j].pc = "done" /\ inv[j].result = "duplicate"
    /\ inv[i].proc = inv[j].proc /\ inv[i].cronId = inv[j].cronId
    /\ inv[i].syncId = inv[j].syncId
    /\ activeSyncs[inv[i].proc] = {}

\* C36: an invocation that is skipped as a duplicate or denied by the lock
\* leaves activeSyncs as it is, and the syncId of a running sync stays in
\* activeSyncs for as long as that sync has not exited
C36_DeniedLeavesLockHeld ==
  /\ [](\A i \in Invs : InBody(i) => inv[i].syncId \in activeSyncs[inv[i].proc])
  /\ [][\A j \in Invs :
          (CallStep(j) /\ inv'[j].result \in DeniedResults \cup {"duplicate"})
            => /\ activeSyncs' = activeSyncs
               /\ \A i \in Invs \ {j} : InBody(i) => inv'[i] = inv[i]]_vars

\* a delivery was denied by the lock and another skipped as a duplicate
\* while the sync that holds the lock is still running
C36_Witness ==
  \E i, j \in Invs :
    /\ InBody(i) /\ inv[i].pc = "index"
    /\ inv[j].pc = "done" /\ inv[j].result = "inProgress"
    /\ inv[j].proc = inv[i].proc /\ inv[j].syncId = inv[i].syncId
    /\ inv[j].cronId \in CronIds /\ inv[j].cronId # inv[i].cronId
    /\ cronExecutions[inv[j].proc][inv[j].cronId] # NoTs

\* C37: the reconciliation of a sync run deletes an index entry only if the
\* item is absent from the source; an item that the source listed and whose
\* processing failed in this run is not deleted
C37_DeletesOnlyAbsentItems ==
  [][\A i \in Invs :
       (inv[i].pc = "delete" /\ inv'[i].pc # "delete")
         => \A o \in index \ index' :
              o[1] = inv[i].scope => o[2] \notin inv[i].upstream]_vars

\* the call of safeDeleteOrphaned made by invocation i is running
InSafeDelete(i) == inv[i].pc \in {"delete", "incDelete"}

\* the syncId that guards a scope: the collection slug, or static-pages
LockOf(scope) == IF scope = StaticType THEN StaticSyncId ELSE scope

\* C38: every call of safeDeleteOrphaned runs while the lock of its scope is
\* held, and two reconciliations over one scope never run together in one
\* process, whichever entry points started them
C38_ReconciliationUnderLock ==
  /\ \A i \in Invs :
       InSafeDelete(i) => LockOf(inv[i].scope) \in activeSyncs[inv[i].proc]
  /\ \A i, j \in Invs :
       (i # j /\ InSafeDelete(i) /\ InSafeDelete(j) /\ inv[i].proc = inv[j].proc)
         => inv[i].scope # inv[j].scope

\* C40: the staticPages and cmsItems counts in the result of a full sync are
\* the numbers of objects that this invocation produced, also when a full
\* sync of another region runs in the same process
C40_ResultCountsAreOwn ==
  \A i \in Invs :
    (inv[i].pc = "done" /\ inv[i].kind = "full" /\ inv[i].result \in {"ok", "dryRun"})
      => inv[i].reported = inv[i].produced

====
